---- MODULE Spec2Model ----
(***************************************************************************)
(* Dual-path (fee-payer service "Kora" / direct) transaction construction  *)
(* of the automaton's Solana layer: transferUsdc, transferSol and          *)
(* getUsdcBalance (solana/usdc.ts), x402Fetch (conway/x402.ts), and        *)
(* registerAgent, updateAgentURI and leaveFeedback                         *)
(* (registry/solana-registry.ts).                                          *)
(*                                                                         *)
(* One call is in flight at a time.  Every awaited external call (Kora     *)
(* JSON-RPC, Solana RPC, spl-token helper, HTTP fetch) is one action whose *)
(* outcome - a value or a thrown error - is chosen by the environment.     *)
(* `calls` records the external calls in the order they are issued, the    *)
(* way the test suites' mocks record them.                                 *)
(*                                                                         *)
(* Conventions.  An optional value (a field that may be undefined) is a    *)
(* sequence of length 0 or 1.  A message text is a sequence of string      *)
(* tokens; a template string concatenates token sequences.                 *)
(***************************************************************************)
EXTENDS Integers, Sequences, FiniteSets, TLC

\* ------------------------------------------------------------------ bounds

\* Resolution of human amounts: amountUSDC and balances are counted in
\* units of 1 / (SubUnit * 10^6) USDC, so that Math.floor(amount * 1e6)
\* really truncates.
SubUnit == 2
\* Largest human amount a caller asks for, in those units.
MaxAmount == 5
\* Largest balance the chain reports, in those units.
MaxBalance == 6

\* ---------------------------------------------------------------- domains

\* amountUSDC: negative, zero, sub-unit and positive amounts.
Amounts == (0 - SubUnit)..MaxAmount
Balances == 0..MaxBalance

\* network is typed SolanaNetwork, but nothing checks it at run time.
Networks == {"mainnet-beta", "devnet", "testnet", "localnet"}

RecipientAddresses == {"RecipientWallet", "not-a-base58-address"}

\* Errors thrown by the collaborators.  Each is an Error object; every
\* source of errors on these paths constructs its errors with a message.
KoraErrors ==
    { [name |-> "Error", message |-> "Kora RPC error [-32600]: Invalid params"],
      [name |-> "Error", message |-> "Kora RPC HTTP error: 500 Internal Server Error"] }
ChainErrors ==
    { [name |-> "Error", message |-> "Attempt to debit an account but found no record of a prior credit."] }
SignErrors ==
    { [name |-> "Error", message |-> "Cannot sign with non signer key"] }
DecodeErrors ==
    { [name |-> "Error", message |-> "Versioned messages must be deserialized with VersionedMessage.deserialize()"] }
AddressErrors ==
    { [name |-> "Error", message |-> "Invalid public key input"] }

Signatures == {"sigA", "sigB"}
\* What kora.transferTransaction returns as `transaction`.
BuiltTransactions == {"koraTxV0", "koraTxLegacy"}

None == <<>>
Some(v) == <<v>>

\* The callers of registerAgent: two calls, one after the other or at the
\* same time, on one store.
Callers == { "first", "second" }
\* A call of registerAgent before it is made.  `failures` records the errors
\* its create attempts failed with, in order.
IdleCall ==
    [ pc |-> "idle", holder |-> "", agentName |-> "", network |-> "",
      koraClient |-> FALSE, existing |-> None, attempt |-> 0, lastError |-> None,
      failures |-> << >>, assetSigner |-> None,
      waits |-> << >>, outcome |-> "pending", returned |-> None, thrown |-> None ]

\* A call of updateAgentURI before it is made.  `before` is what the store
\* held when the call was made, `found` what db.getRegistryEntry() returned
\* after the update.
IdleUpdate ==
    [ pc |-> "idle", assetAddress |-> << >>, newAgentURI |-> "", network |-> "",
      koraClient |-> FALSE, before |-> None, found |-> None,
      outcome |-> "pending", returned |-> None, thrown |-> None ]

\* ------------------------------------------------------------------- state

VARIABLES
    op,             \* the exported function in flight, "none" before a call
    pc,             \* position inside it
    outcome,        \* "pending" | "returned" | "rejected" (the promise)
    result,         \* the returned result object
    value,          \* optional: the plain value returned (functions returning a string)
    thrown,         \* optional: the error the promise rejected with
    caught,         \* optional: the error a catch block caught, and the number
                    \* of external calls issued when it was caught
    calls,          \* external calls issued so far, in order
    koraClient,     \* TRUE iff the koraClient argument is a client
    amountUSDC,     \* argument of transferUsdc
    recipientAddress,
    network,
    balance,        \* optional: what getUsdcBalance returned
    amountRaw,      \* optional: amount handed to a path
    txBase64,       \* optional: transaction returned by Kora's build
    partiallySigned,\* optional: the transaction after the holder signed it
    signedAs,       \* formats in which the transaction was signed and re-encoded
    koraSubmitted,  \* transactions handed to Kora for finalization
    koraResponse,   \* optional: what Kora's finalization returned
    reqMethod,      \* arguments of x402Fetch: method, body, headers, rpcUrl
    reqBody,
    reqHeaders,
    rpcUrl,
    initialResp,    \* optional: the response to the first request
    bodyText,       \* optional: the text read from a 402 response
    requirements,   \* optional: the parsed payment requirements
    cluster,        \* optional: the resolved cluster
    rpc,            \* optional: the RPC endpoint chosen for the direct build
    serializedTransaction, \* optional: the built payment transaction
    requests,       \* the HTTP requests issued, in order
    paidResp,       \* optional: the response to the paid retry
    rpcMethod,      \* KoraClient: the JSON-RPC method of the call in flight
    response,       \* KoraClient.rpc, checkX402: optional, the HTTP response
    args,           \* optional: the arguments a helper function is applied to
    raised,         \* KoraClient: the errors the network call threw, in order, each
                    \* with the party it was thrown to
    reg,            \* registerAgent: the state of each call, by caller
    db,             \* registerAgent: optional, the entry the store holds
    dbWrites,       \* registerAgent: the entries written to the store, in order
    created,        \* registerAgent: the create attempts issued
    chain,          \* registerAgent: the asset addresses created on chain
    amountSol,      \* argument of transferSol
    lamports,       \* transferSol: optional, the amount in lamports
    upd             \* updateAgentURI: the state of the call

vars == << op, pc, outcome, result, value, thrown, caught, calls, koraClient, amountUSDC,
           recipientAddress, network, balance, amountRaw, txBase64,
           partiallySigned, signedAs, koraSubmitted, koraResponse,
           reqMethod, reqBody, reqHeaders, rpcUrl, initialResp, bodyText, requirements,
           cluster, rpc, serializedTransaction, requests, paidResp,
           rpcMethod, response, args, raised, reg, db, dbWrites, created, chain,
           amountSol, lamports, upd >>

usdcArgs == << amountUSDC, recipientAddress, network >>
usdcLocals == << balance, amountRaw >>
koraLocals == << txBase64, partiallySigned, signedAs, koraSubmitted, koraResponse >>
x402Args == << reqMethod, reqBody, reqHeaders, rpcUrl >>
x402Locals == << initialResp, bodyText, requirements, cluster, rpc, serializedTransaction,
                requests, paidResp >>
\* What each operation leaves alone: the state of the others.
rpcLocals == << rpcMethod, response >>
registryVars == << reg, db, dbWrites, created, chain >>
solLocals == << amountSol, lamports >>
outsideUsdc == << x402Args, x402Locals, rpcLocals, args, raised, registryVars, solLocals, upd >>
outsideX402 == << usdcArgs, usdcLocals, rpcLocals, args, raised, registryVars, solLocals, upd >>
outsideFeedback ==
    << usdcArgs, usdcLocals, x402Args, x402Locals, rpcLocals, args, raised, registryVars, solLocals, upd >>

\* ----------------------------------------------------------------- helpers

\* USDC_MINT[network]
USDC_MINT(n) ==
    CASE n = "mainnet-beta" -> Some("EPjFWdd5AufqSSqeM2qN1xzybapC8G4wEGGkZwyTDt1v")
      [] n = "devnet"       -> Some("4zMMC9srt5Ri5X14GAgXhaHii3GnPAEERYPJgZJDncDU")
      [] n = "testnet"      -> Some("4zMMC9srt5Ri5X14GAgXhaHii3GnPAEERYPJgZJDncDU")
      [] OTHER              -> None

\* new PublicKey(address) throws on anything that is not a base58 key.
IsValidAddress(a) == a # "not-a-base58-address"

\* String(err) of an Error object: its name, and its message when it has one.
StringOfError(err) ==
    IF err.message = "" THEN <<err.name>> ELSE <<err.name, ": ", err.message>>

\* err?.message || String(err)
ErrText(err) == IF err.message # "" THEN <<err.message>> ELSE StringOfError(err)

\* Mutant: Math.ceil instead of Math.floor.
ToRawUnits_roundUp(amount) == (amount + SubUnit - 1) \div SubUnit

\* Math.floor(amountUSDC * 1_000_000)
ToRawUnits(amount) == amount \div SubUnit

\* The result object { success, txSignature?, error?, status?, response? }.
NoResult ==
    [ success |-> FALSE, txSignature |-> None, error |-> None,
      status |-> None, response |-> None ]
Success(sig) == [ NoResult EXCEPT !.success = TRUE, !.txSignature = Some(sig) ]
Failure(msg) == [ NoResult EXCEPT !.error = Some(msg) ]

\* The promise of the exported function resolves to the result object r.
Resolve(r) ==
    /\ pc' = "done"
    /\ outcome' = "returned"
    /\ result' = r
    /\ value' = None
    /\ thrown' = None

\* `return r` from the exported function.
Return(r) ==
    /\ Resolve(r)
    /\ UNCHANGED caught

\* `return r` from a catch block that caught err.
ReturnFromCatch(err, r) ==
    /\ Resolve(r)
    /\ caught' = Some([ error |-> err, after |-> Len(calls') ])

\* `return v` from an exported function that returns a plain value.
ReturnValue(v) ==
    /\ pc' = "done"
    /\ outcome' = "returned"
    /\ result' = NoResult
    /\ value' = Some(v)
    /\ thrown' = None
    /\ UNCHANGED caught

\* An error escapes the exported async function: its promise rejects.
Reject(err) ==
    /\ pc' = "done"
    /\ outcome' = "rejected"
    /\ result' = NoResult
    /\ value' = None
    /\ thrown' = Some(err)
    /\ UNCHANGED caught

Goto(label) ==
    /\ pc' = label
    /\ UNCHANGED << outcome, result, value, thrown, caught >>

Issue(name) == calls' = Append(calls, name)

\* -------------------------------------------------------------------- Init

Init ==
    /\ op = "none"
    /\ pc = "idle"
    /\ outcome = "pending"
    /\ result = NoResult
    /\ value = None
    /\ thrown = None
    /\ caught = None
    /\ calls = <<>>
    /\ koraClient = FALSE
    /\ amountUSDC = 0
    /\ recipientAddress = "RecipientWallet"
    /\ network = "mainnet-beta"
    /\ balance = None
    /\ amountRaw = None
    /\ txBase64 = None
    /\ partiallySigned = None
    /\ signedAs = <<>>
    /\ koraSubmitted = <<>>
    /\ koraResponse = None
    /\ reqMethod = "GET"
    /\ reqBody = None
    /\ reqHeaders = {}
    /\ rpcUrl = None
    /\ initialResp = None
    /\ bodyText = None
    /\ requirements = None
    /\ cluster = None
    /\ rpc = None
    /\ serializedTransaction = None
    /\ requests = <<>>
    /\ paidResp = None
    /\ rpcMethod = "none"
    /\ response = None
    /\ args = None
    /\ raised = << >>
    /\ reg = [ p \in Callers |-> IdleCall ]
    /\ db = None
    /\ dbWrites = << >>
    /\ created = {}
    /\ chain = {}
    /\ amountSol = 0
    /\ lamports = None
    /\ upd = IdleUpdate

\* ------------------------------------------------------------ transferUsdc

\* A caller invokes transferUsdc(keypair, recipientAddress, amountUSDC,
\* network, rpcUrl, koraClient).
transferUsdc_call ==
    /\ pc = "idle"
    /\ \E a \in Amounts, r \in RecipientAddresses, n \in Networks, k \in BOOLEAN :
        /\ amountUSDC' = a
        /\ recipientAddress' = r
        /\ network' = n
        /\ koraClient' = k
    /\ op' = "transferUsdc"
    /\ Goto("usdc_balance")
    /\ UNCHANGED << outsideUsdc, calls, usdcLocals, koraLocals >>

\* new Connection(rpc, "confirmed") of line 76 throws on an endpoint that is
\* not an http(s) URL (the rpcUrl argument is any string).
EndpointErrors ==
    { [ name |-> "TypeError",
        message |-> "Endpoint URL must start with http: or https:." ] }
\* Errors thrown inside the try block of getUsdcBalanceDetailed.
LookupErrors ==
    { [ name |-> "Error",
        message |-> "failed to get token account balance: Invalid param: could not find account" ],
      [ name |-> "Error", message |-> "fetch failed" ] }

\* The balance lookup failed with e.
LookupFailed(e) == raised' = Append(raised, [ by |-> "getUsdcBalance", error |-> e ])

\* Lines 87-98: balance: 0 in both returns of the catch block.
BalanceAfterFailure(e) == 0

\* getUsdcBalance -> getUsdcBalanceDetailed: an unsupported network gives 0
\* without a query; the connection is constructed outside the try block; a
\* missing account or any other error inside it gives 0.
getUsdcBalance ==
    /\ pc = "usdc_balance"
    /\ \/ /\ USDC_MINT(network) = None
          /\ balance' = Some(0)
          /\ Goto("usdc_check")
          /\ UNCHANGED << calls, raised >>
       \/ /\ USDC_MINT(network) # None
          /\ \E e \in EndpointErrors :
                /\ LookupFailed(e)
                /\ Reject(e)
          /\ UNCHANGED << calls, balance >>
       \/ /\ USDC_MINT(network) # None
          /\ Issue("getTokenAccountBalance")
          /\ \/ \E b \in Balances :
                   /\ balance' = Some(b)
                   /\ UNCHANGED raised
             \/ \E e \in LookupErrors :
                   /\ balance' = Some(BalanceAfterFailure(e))
                   /\ LookupFailed(e)
          /\ Goto("usdc_check")
    /\ UNCHANGED << x402Args, x402Locals, rpcLocals, args, registryVars, solLocals, upd,
                    op, koraClient, usdcArgs, amountRaw, koraLocals >>

\* Mutant: the limit is the whole balance instead of half of it.
ExceedsSafetyLimit_wholeBalance(amount, bal) == amount > bal

\* amountUSDC > balance * 0.5
ExceedsSafetyLimit(amount, bal) == 2 * amount > bal

SafetyLimitMessage(bal) ==
    << "Safety limit: cannot send more than 50% of balance (", ToString(bal),
       " USDC) in one transfer" >>

UnsupportedNetworkMessage(n) == << "Unsupported network: ", n >>

\* if (koraClient) : the path is chosen by the presence of the client alone.
UseKoraPath(client) == client

\* Lines 189-199: the safety check, then the choice of path.
transferUsdc_safetyCheck ==
    /\ pc = "usdc_check"
    /\ IF ExceedsSafetyLimit(amountUSDC, balance[1])
         THEN Return(Failure(SafetyLimitMessage(balance[1])))
         ELSE Goto(IF UseKoraPath(koraClient) THEN "kora_start" ELSE "direct_start")
    /\ UNCHANGED << outsideUsdc, op, calls, koraClient, usdcArgs, usdcLocals, koraLocals >>

\* ------------------------------------------------------ transferUsdcViaKora

\* Mutant: a fee-payer failure falls back to the direct path.
transferUsdcViaKora_catch_fallback(err) ==
    /\ pc' = "direct_start"
    /\ caught' = Some([ error |-> err, after |-> Len(calls') ])
    /\ UNCHANGED << outcome, result, value, thrown >>

\* Mutant: the upstream message is dropped from the error.
transferUsdcViaKora_catch_generic(err) ==
    ReturnFromCatch(err, Failure(<< "Kora transfer failed" >>))

\* catch (err) of transferUsdcViaKora: the failure is terminal for the call.
transferUsdcViaKora_catch(err) ==
    ReturnFromCatch(err, Failure(<< "Kora transfer failed: " >> \o ErrText(err)))

\* Entry of transferUsdcViaKora: mint lookup and unit conversion.
transferUsdcViaKora_start ==
    /\ pc = "kora_start"
    /\ IF USDC_MINT(network) = None
         THEN /\ Return(Failure(UnsupportedNetworkMessage(network)))
              /\ UNCHANGED amountRaw
         ELSE /\ amountRaw' = Some(ToRawUnits(amountUSDC))
              /\ Goto("kora_build")
    /\ UNCHANGED << outsideUsdc, op, calls, koraClient, usdcArgs, balance, koraLocals >>

\* Step 1: kora.transferTransaction builds the transfer, Kora as fee payer.
transferUsdcViaKora_build ==
    /\ pc = "kora_build"
    /\ Issue("kora.transferTransaction")
    /\ \/ \E t \in BuiltTransactions :
             /\ txBase64' = Some(t)
             /\ Goto("kora_sign_versioned")
       \/ \E e \in KoraErrors :
             /\ transferUsdcViaKora_catch(e)
             /\ UNCHANGED txBase64
    /\ UNCHANGED << outsideUsdc, op, koraClient, usdcArgs, usdcLocals, signedAs, koraSubmitted,
                    partiallySigned, koraResponse >>

\* The transaction after the holder signed it and it was re-encoded.
PartiallySigned(tx, format) ==
    [ tx |-> tx, format |-> format, feePayer |-> "kora", signedBy |-> {"holder"} ]

\* Step 2, try block: VersionedTransaction.deserialize, sign, serialize.
\* Whatever throws inside it is swallowed and the legacy attempt follows.
transferUsdcViaKora_signVersioned ==
    /\ pc = "kora_sign_versioned"
    /\ \/ /\ calls' = calls \o << "VersionedTransaction.deserialize", "versionedTx.sign" >>
          /\ partiallySigned' = Some(PartiallySigned(txBase64[1], "versioned"))
          /\ signedAs' = Append(signedAs, "versioned")
          /\ Goto("kora_finalize")
       \/ /\ Issue("VersionedTransaction.deserialize")
          /\ UNCHANGED << partiallySigned, signedAs >>
          /\ Goto("kora_sign_legacy")
       \/ /\ calls' = calls \o << "VersionedTransaction.deserialize", "versionedTx.sign" >>
          /\ UNCHANGED << partiallySigned, signedAs >>
          /\ Goto("kora_sign_legacy")
    /\ UNCHANGED << outsideUsdc, op, koraClient, usdcArgs, usdcLocals, txBase64, koraSubmitted,
                    koraResponse >>

\* Step 2, catch block: Transaction.from, partialSign, serialize with
\* requireAllSignatures = false.  A throw here reaches the outer catch.
transferUsdcViaKora_signLegacy ==
    /\ pc = "kora_sign_legacy"
    /\ \/ /\ calls' = calls \o << "Transaction.from", "legacyTx.partialSign" >>
          /\ partiallySigned' = Some(PartiallySigned(txBase64[1], "legacy"))
          /\ signedAs' = Append(signedAs, "legacy")
          /\ Goto("kora_finalize")
       \/ \E e \in DecodeErrors :
             /\ Issue("Transaction.from")
             /\ UNCHANGED << partiallySigned, signedAs >>
             /\ transferUsdcViaKora_catch(e)
       \/ \E e \in SignErrors :
             /\ calls' = calls \o << "Transaction.from", "legacyTx.partialSign" >>
             /\ UNCHANGED << partiallySigned, signedAs >>
             /\ transferUsdcViaKora_catch(e)
    /\ UNCHANGED << outsideUsdc, op, koraClient, usdcArgs, usdcLocals, txBase64, koraSubmitted,
                    koraResponse >>

\* Mutant: the result carries a fixed string instead of result.signature.
transferUsdcViaKora_finalize_wrongField ==
    /\ pc = "kora_finalize"
    /\ Issue("kora.signAndSendTransaction")
    /\ koraSubmitted' = Append(koraSubmitted, partiallySigned[1])
    /\ \E s \in Signatures :
          /\ koraResponse' = Some(s)
          /\ Return(Success("signed_transaction"))
    /\ UNCHANGED << outsideUsdc, op, koraClient, usdcArgs, usdcLocals, txBase64, signedAs,
                    partiallySigned >>

\* What kora.signAndSendTransaction resolves to: KoraClient.rpc returns
\* json.result as it came, so the object has a signature or lacks it.
SignatureMissing == "{}"
KoraSendResponses == Signatures \cup { SignatureMissing }
\* result.signature
SignatureOf(resp) == IF resp = SignatureMissing THEN None ELSE Some(resp)

\* { success: true, txSignature: result.signature }
KoraTransferResult(resp) == [ NoResult EXCEPT !.success = TRUE, !.txSignature = SignatureOf(resp) ]

\* Step 3: kora.signAndSendTransaction co-signs and broadcasts.
transferUsdcViaKora_finalize ==
    /\ pc = "kora_finalize"
    /\ Issue("kora.signAndSendTransaction")
    /\ koraSubmitted' = Append(koraSubmitted, partiallySigned[1])
    /\ \/ \E r \in KoraSendResponses :
             /\ koraResponse' = Some(r)
             /\ Return(KoraTransferResult(r))
       \/ \E e \in KoraErrors :
             /\ UNCHANGED koraResponse
             /\ transferUsdcViaKora_catch(e)
    /\ UNCHANGED << outsideUsdc, op, koraClient, usdcArgs, usdcLocals, txBase64, signedAs,
                    partiallySigned >>

\* ------------------------------------------------- transferUsdc, direct path

\* catch (err) of the direct path.
transferUsdc_catch(err) == ReturnFromCatch(err, Failure(ErrText(err)))

\* Lines 202-210: mint lookup, then new PublicKey(recipientAddress), which
\* is evaluated before the try block is entered.
transferUsdc_directStart ==
    /\ pc = "direct_start"
    /\ IF USDC_MINT(network) = None
         THEN Return(Failure(UnsupportedNetworkMessage(network)))
         ELSE IF ~IsValidAddress(recipientAddress)
                THEN \E e \in AddressErrors : Reject(e)
                ELSE Goto("direct_sender_ata")
    /\ UNCHANGED << outsideUsdc, op, calls, koraClient, usdcArgs, usdcLocals, koraLocals >>

\* getOrCreateAssociatedTokenAccount for the sender.
transferUsdc_senderATA ==
    /\ pc = "direct_sender_ata"
    /\ Issue("getOrCreateAssociatedTokenAccount")
    /\ \/ Goto("direct_recipient_ata")
       \/ \E e \in ChainErrors : transferUsdc_catch(e)
    /\ UNCHANGED << outsideUsdc, op, koraClient, usdcArgs, usdcLocals, koraLocals >>

\* getOrCreateAssociatedTokenAccount for the recipient (the sender pays).
transferUsdc_recipientATA ==
    /\ pc = "direct_recipient_ata"
    /\ Issue("getOrCreateAssociatedTokenAccount")
    /\ \/ Goto("direct_transfer")
       \/ \E e \in ChainErrors : transferUsdc_catch(e)
    /\ UNCHANGED << outsideUsdc, op, koraClient, usdcArgs, usdcLocals, koraLocals >>

\* spl-token transfer of BigInt(Math.floor(amountUSDC * 1_000_000)).
transferUsdc_transfer ==
    /\ pc = "direct_transfer"
    /\ amountRaw' = Some(ToRawUnits(amountUSDC))
    /\ Issue("transfer")
    /\ \/ \E s \in Signatures : Return(Success(s))
       \/ \E e \in ChainErrors : transferUsdc_catch(e)
    /\ UNCHANGED << outsideUsdc, op, koraClient, usdcArgs, balance, koraLocals >>

transferUsdc ==
    \/ transferUsdc_call
    \/ getUsdcBalance
    \/ transferUsdc_safetyCheck
    \/ transferUsdcViaKora_start
    \/ transferUsdcViaKora_build
    \/ transferUsdcViaKora_signVersioned
    \/ transferUsdcViaKora_signLegacy
    \/ transferUsdcViaKora_finalize
    \/ transferUsdc_directStart
    \/ transferUsdc_senderATA
    \/ transferUsdc_recipientATA
    \/ transferUsdc_transfer


\* ------------------------------------------------------------- transferSol

outsideSol ==
    << koraClient, amountUSDC, amountRaw, koraLocals, x402Args, x402Locals, rpcLocals,
       args, raised, registryVars, upd >>

\* A caller invokes transferSol(keypair, recipientAddress, amountSol, network,
\* rpcUrl).  amountSol is counted in 1 / SubUnit of a lamport.
transferSol_call ==
    /\ pc = "idle"
    /\ \E a \in Amounts, r \in RecipientAddresses, n \in Networks :
        /\ amountSol' = a
        /\ recipientAddress' = r
        /\ network' = n
    /\ op' = "transferSol"
    /\ Goto("sol_start")
    /\ UNCHANGED << outsideSol, calls, balance, lamports >>

\* Lines 254-256, before the try block: the connection and the recipient key
\* are constructed; either constructor may throw.
transferSol_start ==
    /\ pc = "sol_start"
    /\ \/ \E e \in EndpointErrors : Reject(e)
       \/ IF ~IsValidAddress(recipientAddress)
            THEN \E e \in AddressErrors : Reject(e)
            ELSE Goto("sol_balance")
    /\ UNCHANGED << outsideSol, op, calls, amountSol, recipientAddress, network, balance,
                    lamports >>

\* catch (err) of transferSol
transferSol_catch(err) == ReturnFromCatch(err, Failure(ErrText(err)))

\* Math.floor(amountSol * LAMPORTS_PER_SOL)
ToLamports(amount) == amount \div SubUnit

\* Mutant: the limit is the whole balance.
ExceedsSolLimit_wholeBalance(lamps, bal) == lamps > bal

\* lamports > balance * 0.5
ExceedsSolLimit(lamps, bal) == 2 * lamps > bal

SolSafetyLimitMessage == << "Safety limit: cannot send more than 50% of SOL balance" >>

\* Lines 259-268: connection.getBalance, the conversion to lamports and the
\* safety check.
transferSol_balance ==
    /\ pc = "sol_balance"
    /\ Issue("getBalance")
    /\ \/ \E b \in Balances :
             /\ balance' = Some(b)
             /\ lamports' = Some(ToLamports(amountSol))
             /\ IF ExceedsSolLimit(ToLamports(amountSol), b)
                  THEN Return(Failure(SolSafetyLimitMessage))
                  ELSE Goto("sol_send")
       \/ \E e \in ChainErrors :
             /\ UNCHANGED << balance, lamports >>
             /\ transferSol_catch(e)
    /\ UNCHANGED << outsideSol, op, amountSol, recipientAddress, network >>

\* Lines 270-279: the transfer is built and sendAndConfirmTransaction awaited.
transferSol_send ==
    /\ pc = "sol_send"
    /\ Issue("sendAndConfirmTransaction")
    /\ \/ \E s \in Signatures : Return(Success(s))
       \/ \E e \in ChainErrors : transferSol_catch(e)
    /\ UNCHANGED << outsideSol, op, amountSol, recipientAddress, network, balance, lamports >>

transferSol ==
    \/ transferSol_call
    \/ transferSol_start
    \/ transferSol_balance
    \/ transferSol_send


\* =================================================================== x402

\* ------------------------------------------------------------ JSON values

\* A JSON value as parsePaymentRequirements sees it through typeof: its type
\* tag, its string value and its numeric value.  Numbers count halves, so
\* that Math.round has something to round.
Absent == [ t |-> "undefined", s |-> "", n |-> 0 ]
JsonNull == [ t |-> "null", s |-> "", n |-> 0 ]
Str(x) == [ t |-> "string", s |-> x, n |-> 0 ]
Num(halves) == [ t |-> "number", s |-> "", n |-> halves ]

\* The fields parsePaymentRequirements reads from an object.
EmptyObject ==
    [ recipientWallet |-> Absent, recipient |-> Absent, tokenAccount |-> Absent,
      mint |-> Absent, amount |-> Absent, amountUSDC |-> Absent,
      cluster |-> Absent, network |-> Absent, message |-> Absent ]

FullObject ==
    [ EmptyObject EXCEPT
        !.recipientWallet = Str("RecipientWallet"),
        !.tokenAccount = Str("RecipientTokenAccount"),
        !.mint = Str("EPjFWdd5AufqSSqeM2qN1xzybapC8G4wEGGkZwyTDt1v"),
        !.amount = Num(2000000),
        !.amountUSDC = Num(2),
        !.cluster = Str("mainnet-beta"),
        !.message = Str("Pay to access this resource") ]

\* A response body: `json` tells whether its text parses as JSON, `object`
\* whether the parsed value is a non-null object, `fields` its own fields and
\* `payment` its payment member (`paymentIsObject` : typeof object, not null).
NotJsonBody ==
    [ json |-> FALSE, object |-> FALSE, fields |-> EmptyObject,
      paymentIsObject |-> FALSE, payment |-> EmptyObject, text |-> "not json" ]
NonObjectBody ==
    [ NotJsonBody EXCEPT !.json = TRUE, !.text = "null" ]
FlatBody(o, txt) ==
    [ json |-> TRUE, object |-> TRUE, fields |-> o,
      paymentIsObject |-> FALSE, payment |-> EmptyObject, text |-> txt ]
NestedBody(o, txt) ==
    [ json |-> TRUE, object |-> TRUE, fields |-> EmptyObject,
      paymentIsObject |-> TRUE, payment |-> o, text |-> txt ]

\* Bodies a server sends with status 402.
ChallengeBodies ==
    { NestedBody(FullObject, "nested-full"),
      FlatBody([ FullObject EXCEPT !.recipientWallet = Absent,
                                   !.recipient = Str("RecipientWallet"),
                                   !.cluster = Absent,
                                   !.network = Str("solana-devnet"),
                                   !.amount = Num(3),
                                   !.amountUSDC = Absent,
                                   !.message = Absent ], "flat-recipient"),
      NestedBody([ FullObject EXCEPT !.mint = Str("not-a-base58-address"),
                                     !.cluster = Str("localnet") ], "nested-bad-mint"),
      NestedBody([ FullObject EXCEPT !.mint = Absent ], "nested-no-mint"),
      FlatBody([ FullObject EXCEPT !.amount = Str("1000000") ], "flat-amount-string"),
      NestedBody([ FullObject EXCEPT !.tokenAccount = Str("") ], "nested-empty-account"),
      NonObjectBody,
      NotJsonBody }
    \cup { NestedBody([ FullObject EXCEPT !.cluster = Str(c) ], c) :
             c \in { "mainnet", " Mainnet-Beta ", "Solana-Mainnet", "DEVNET", " testnet",
                     "production", "mainnet beta", "" } }
    \cup { FlatBody([ FullObject EXCEPT !.cluster = Absent ], "no-designator"),
           FlatBody([ FullObject EXCEPT !.cluster = Num(2),
                                        !.network = Str("solana-mainnet") ],
                    "network-mainnet"),
           FlatBody([ FullObject EXCEPT !.cluster = Str(""),
                                        !.network = Str("mainnet") ],
                    "empty-cluster") }

\* Bodies of responses that are not challenges.
PlainBodies ==
    { FlatBody(EmptyObject, "{\"data\":\"success\"}"),
      [ NotJsonBody EXCEPT !.text = "<html>ok</html>" ] }

\* JSON.parse(bodyText) inside try/catch: the parsed body, or null.
JsonParseOrNull(body) == IF body.json THEN body ELSE NonObjectBody

\* ---------------------------------------------------------------- helpers

\* cluster.trim().toLowerCase(), on the designators of this model.
TrimLower(c) ==
    CASE c = " Mainnet-Beta " -> "mainnet-beta"
      [] c = "MAINNET"        -> "mainnet"
      [] c = "Solana-Mainnet" -> "solana-mainnet"
      [] c = "DEVNET"         -> "devnet"
      [] c = " testnet"       -> "testnet"
      [] c = " "              -> ""
      [] OTHER                -> c

\* Mutant: an unknown designator resolves to mainnet.
resolveCluster_defaultMainnet(c) ==
    LET n == TrimLower(c) IN
    IF n \in { "devnet", "solana-devnet" } THEN "devnet"
    ELSE IF n \in { "testnet", "solana-testnet" } THEN "testnet"
    ELSE "mainnet-beta"

resolveCluster(c) ==
    LET n == TrimLower(c) IN
    IF n \in { "mainnet", "mainnet-beta", "solana-mainnet" } THEN "mainnet-beta"
    ELSE IF n \in { "devnet", "solana-devnet" } THEN "devnet"
    ELSE IF n \in { "testnet", "solana-testnet" } THEN "testnet"
    ELSE "devnet"

\* X402_NETWORK[cluster]
X402_NETWORK(c) ==
    CASE c = "mainnet-beta" -> Some("solana-mainnet")
      [] c = "devnet"       -> Some("solana-devnet")
      [] c = "testnet"      -> Some("solana-testnet")
      [] OTHER              -> None

\* RPC_URLS[cluster] of x402.ts
RPC_URLS(c) ==
    CASE c = "mainnet-beta" -> Some("https://api.mainnet-beta.solana.com")
      [] c = "devnet"       -> Some("https://api.devnet.solana.com")
      [] c = "testnet"      -> Some("https://api.testnet.solana.com")
      [] OTHER              -> None

\* a || b on optional strings
OrElse(a, b) == IF a # None /\ a[1] # "" THEN a ELSE b

\* !str on an optional string: undefined, null and "" are falsy.
Falsy(str) == str = None \/ str[1] = ""

\* Mutant: the fields are tested against null only, so "" is accepted.
IsIncomplete_nullOnly(tokenAccount, mint, amount, recipientWallet) ==
    tokenAccount = None \/ mint = None \/ amount = None \/ recipientWallet = None

\* Mutant: the amount is tested for truthiness, so 0 is refused.
IsIncomplete_zeroAmountRefused(tokenAccount, mint, amount, recipientWallet) ==
    Falsy(tokenAccount) \/ Falsy(mint) \/ amount = None \/ amount[1] = 0
        \/ Falsy(recipientWallet)

\* !tokenAccount || !mint || amount === null || !recipientWallet
IsIncomplete(tokenAccount, mint, amount, recipientWallet) ==
    Falsy(tokenAccount) \/ Falsy(mint) \/ amount = None \/ Falsy(recipientWallet)

\* parsePaymentRequirements(body): the requirements, or None for null.
parsePaymentRequirements(body) ==
    IF ~body.object THEN None
    ELSE
    LET paymentObj == IF body.paymentIsObject THEN body.payment ELSE body.fields
        tokenAccount == IF paymentObj.tokenAccount.t = "string"
                          THEN Some(paymentObj.tokenAccount.s) ELSE None
        mint == IF paymentObj.mint.t = "string" THEN Some(paymentObj.mint.s) ELSE None
        amount == IF paymentObj.amount.t = "number" THEN Some(paymentObj.amount.n) ELSE None
        recipientWallet ==
            IF paymentObj.recipientWallet.t = "string" THEN Some(paymentObj.recipientWallet.s)
            ELSE IF paymentObj.recipient.t = "string" THEN Some(paymentObj.recipient.s)
            ELSE None
        clusterOf ==
            IF paymentObj.cluster.t = "string" THEN paymentObj.cluster.s
            ELSE IF paymentObj.network.t = "string" THEN paymentObj.network.s
            ELSE "devnet"
    IN  IF IsIncomplete(tokenAccount, mint, amount, recipientWallet)
          THEN None
          ELSE Some([ recipientWallet |-> recipientWallet[1],
                      tokenAccount |-> tokenAccount[1],
                      mint |-> mint[1],
                      amount |-> amount[1],
                      amountUSDC |->
                          IF paymentObj.amountUSDC.t = "number"
                            THEN [ num |-> paymentObj.amountUSDC.n, den |-> 2 ]
                            ELSE [ num |-> amount[1], den |-> 2 * 1000000 ],
                      cluster |-> clusterOf,
                      message |-> IF paymentObj.message.t = "string"
                                    THEN Some(paymentObj.message.s) ELSE None ])

\* Math.round of a number counted in halves (ties round up).
MathRound(halves) == (halves + 1) \div 2

\* JSON.stringify(payload) as its sequence of keys and values.
JsonStringify(payload) ==
    << "x402Version", ToString(payload.x402Version), "scheme", payload.scheme,
       "network", payload.network,
       "payload.serializedTransaction", payload.payload.serializedTransaction >>

\* Buffer.from(text).toString("base64")
Base64(text) == << "base64" >> \o text

\* Mutant: the designator is put in the header as it came.
buildXPaymentHeader_rawNetwork(tx, c) ==
    Base64(JsonStringify([ x402Version |-> 1, scheme |-> "exact", network |-> c,
                           payload |-> [ serializedTransaction |-> tx ] ]))

buildXPaymentHeader(tx, c) ==
    LET resolvedCluster == resolveCluster(c)
        x402Network == OrElse(X402_NETWORK(resolvedCluster), Some("solana-devnet"))[1]
        payload == [ x402Version |-> 1, scheme |-> "exact", network |-> x402Network,
                     payload |-> [ serializedTransaction |-> tx ] ]
    IN  Base64(JsonStringify(payload))

\* { ...a, ...b } on header objects, held as sets of <<name, value>>.
Spread(a, b) == { h \in a : \A g \in b : g[1] # h[1] } \cup b

ContentTypeJson == { << "Content-Type", << "application/json" >> >> }

ResourceUrl == "https://example.com/resource"

\* Headers a caller passes.
CallerHeaders ==
    { {},
      { << "Authorization", << "Bearer token" >> >> },
      { << "Content-Type", << "text/plain" >> >>,
        << "X-Payment", << "caller-supplied" >> >> } }

\* method and body a caller passes.
CallerRequests ==
    { [ method |-> "GET", body |-> None ],
      [ method |-> "POST", body |-> Some("{\"q\":1}") ] }

CallerRpcUrls == { None, Some("https://rpc.example.com") }

Statuses == { 200, 402, 500 }
\* Response.ok
IsOk(status) == status >= 200 /\ status <= 299

FetchErrors == { [ name |-> "TypeError", message |-> "fetch failed" ] }
BodyErrors ==
    { [ name |-> "TypeError", message |-> "Body is unusable: Body has already been read" ] }

SignedTransactions == { "koraSignedTxA", "koraSignedTxB" }

\* --------------------------------------------------------------- x402Fetch

\* A caller invokes x402Fetch(url, keypair, method, body, headers, rpcUrl,
\* koraClient).
x402Fetch_call ==
    /\ pc = "idle"
    /\ \E rq \in CallerRequests, h \in CallerHeaders, u \in CallerRpcUrls, k \in BOOLEAN :
        /\ reqMethod' = rq.method
        /\ reqBody' = rq.body
        /\ reqHeaders' = h
        /\ rpcUrl' = u
        /\ koraClient' = k
    /\ op' = "x402Fetch"
    /\ Goto("x_initial")
    /\ UNCHANGED << outsideX402, calls, koraLocals, x402Locals >>

\* Mutant: the outer catch rethrows.
x402Fetch_catch_rethrow(err) == Reject(err)

\* The outer catch of x402Fetch.
x402Fetch_catch(err) == ReturnFromCatch(err, Failure(ErrText(err)))

\* Mutant: no inner try; a build failure reaches the outer catch.
x402Fetch_buildCatch_outer(err) == x402Fetch_catch(err)

\* The catch around buildPaymentTransaction.
x402Fetch_buildCatch(err) ==
    ReturnFromCatch(err,
        [ NoResult EXCEPT
            !.error = Some(<< "Failed to build x402 payment transaction: " >>
                           \o ErrText(err)),
            !.status = Some(402) ])

\* The request of step 1.
InitialRequest ==
    [ url |-> ResourceUrl, method |-> reqMethod,
      headers |-> Spread(ContentTypeJson, reqHeaders), body |-> reqBody ]

\* Mutant: the retry is built without the caller's headers.
PaidRequest_headersDropped(xPaymentHeader) ==
    [ url |-> ResourceUrl, method |-> reqMethod,
      headers |-> Spread(ContentTypeJson, { << "X-Payment", xPaymentHeader >> }),
      body |-> reqBody ]

\* The request of step 4.
PaidRequest(xPaymentHeader) ==
    [ url |-> ResourceUrl, method |-> reqMethod,
      headers |-> Spread(Spread(ContentTypeJson, reqHeaders),
                         { << "X-Payment", xPaymentHeader >> }),
      body |-> reqBody ]

\* Step 1: the initial request.
x402Fetch_initialRequest ==
    /\ pc = "x_initial"
    /\ Issue("fetch")
    /\ requests' = Append(requests, InitialRequest)
    /\ \/ \E st \in Statuses :
          \E b \in (IF st = 402 THEN ChallengeBodies ELSE PlainBodies) :
             /\ initialResp' = Some([ status |-> st, body |-> b ])
             /\ Goto("x_response")
       \/ \E e \in FetchErrors :
             /\ UNCHANGED initialResp
             /\ x402Fetch_catch(e)
    /\ UNCHANGED << outsideX402, op, koraClient, koraLocals, x402Args, bodyText,
                    requirements, cluster, rpc, serializedTransaction, paidResp >>

\* initialResp.status !== 402 negated
IsPaymentRequired(status) == status = 402

\* resp.json().catch(() => resp.text()): the parsed body; for a body that is
\* not JSON its text, or the error of text() where the body, already read by
\* json(), cannot be read again.
ReadJsonOrText(body) ==
    IF body.json
      THEN { [ ok |-> TRUE, data |-> << "json", body.text >>, err |-> << >> ] }
      ELSE { [ ok |-> TRUE, data |-> << "text", body.text >>, err |-> << >> ] }
           \cup { [ ok |-> FALSE, data |-> << >>, err |-> << e >> ] : e \in BodyErrors }

\* { success: resp.ok, response: data, status: resp.status }
ResponseResult(resp, data) ==
    [ NoResult EXCEPT !.success = IsOk(resp.status), !.response = Some(data),
                      !.status = Some(resp.status) ]

\* Lines 289-292: a response that is no challenge is returned as it is.
x402Fetch_passThrough ==
    /\ pc = "x_response"
    /\ UNCHANGED calls
    /\ ~IsPaymentRequired(initialResp[1].status)
    /\ \E r \in ReadJsonOrText(initialResp[1].body) :
          IF r.ok THEN Return(ResponseResult(initialResp[1], r.data))
                  ELSE x402Fetch_catch(r.err[1])
    /\ UNCHANGED << outsideX402, op, koraClient, koraLocals, x402Args, x402Locals >>

UnparseableChallenge ==
    [ NoResult EXCEPT
        !.error = Some(<< "Could not parse x402 payment requirements from 402 response" >>),
        !.status = Some(402) ]

\* Steps 2 and 3 up to the build: read the body as text, parse it, resolve
\* the cluster and the RPC endpoint.
x402Fetch_parseChallenge ==
    /\ pc = "x_response"
    /\ UNCHANGED calls
    /\ IsPaymentRequired(initialResp[1].status)
    /\ \/ LET bodyJson == JsonParseOrNull(initialResp[1].body)
              reqs == parsePaymentRequirements(bodyJson)
          IN  /\ bodyText' = Some(initialResp[1].body.text)
              /\ IF reqs = None
                   THEN /\ Return(UnparseableChallenge)
                        /\ UNCHANGED << requirements, cluster, rpc >>
                   ELSE /\ requirements' = reqs
                        /\ cluster' = Some(resolveCluster(reqs[1].cluster))
                        /\ rpc' = OrElse(rpcUrl,
                                         OrElse(RPC_URLS(resolveCluster(reqs[1].cluster)),
                                                RPC_URLS("devnet")))
                        /\ Goto("x_build")
       \/ \E e \in FetchErrors :
             /\ x402Fetch_catch(e)
             /\ UNCHANGED << bodyText, requirements, cluster, rpc >>
    /\ UNCHANGED << outsideX402, op, koraClient, koraLocals, x402Args,
                    initialResp, serializedTransaction, requests, paidResp >>

\* if (koraClient) of buildPaymentTransaction
UseKoraForPayment(client) == client

\* buildPaymentTransaction up to its first await: the choice of path and,
\* on the direct path, the construction of the two public keys.
buildPaymentTransaction ==
    /\ pc = "x_build"
    /\ UNCHANGED calls
    /\ IF UseKoraForPayment(koraClient)
         THEN Goto("xk_build")
         ELSE IF ~IsValidAddress(requirements[1].mint)
                   \/ ~IsValidAddress(requirements[1].tokenAccount)
                THEN \E e \in AddressErrors : x402Fetch_buildCatch(e)
                ELSE Goto("xd_sender_ata")
    /\ UNCHANGED << outsideX402, op, koraClient, koraLocals, x402Args, x402Locals >>

\* kora.transferTransaction of buildPaymentTransactionViaKora.
buildPaymentTransactionViaKora_build ==
    /\ pc = "xk_build"
    /\ Issue("kora.transferTransaction")
    /\ amountRaw' = Some(MathRound(requirements[1].amount))
    /\ \/ \E t \in BuiltTransactions :
             /\ txBase64' = Some(t)
             /\ Goto("xk_sign_versioned")
       \/ \E e \in KoraErrors :
             /\ x402Fetch_buildCatch(e)
             /\ UNCHANGED txBase64
    /\ UNCHANGED << usdcArgs, balance, op, koraClient, partiallySigned, signedAs,
                    koraSubmitted, koraResponse, x402Args, x402Locals, rpcLocals, args,
                    raised, registryVars, solLocals, upd >>

\* try block: VersionedTransaction.deserialize, sign, serialize.
buildPaymentTransactionViaKora_signVersioned ==
    /\ pc = "xk_sign_versioned"
    /\ \/ /\ calls' = calls \o << "VersionedTransaction.deserialize", "versionedTx.sign" >>
          /\ partiallySigned' = Some(PartiallySigned(txBase64[1], "versioned"))
          /\ signedAs' = Append(signedAs, "versioned")
          /\ Goto("xk_sign")
       \/ /\ Issue("VersionedTransaction.deserialize")
          /\ UNCHANGED << partiallySigned, signedAs >>
          /\ Goto("xk_sign_legacy")
       \/ /\ calls' = calls \o << "VersionedTransaction.deserialize", "versionedTx.sign" >>
          /\ UNCHANGED << partiallySigned, signedAs >>
          /\ Goto("xk_sign_legacy")
    /\ UNCHANGED << outsideX402, op, koraClient, txBase64, koraSubmitted, koraResponse,
                    x402Args, x402Locals >>

\* catch block: Transaction.from, partialSign, serialize.
buildPaymentTransactionViaKora_signLegacy ==
    /\ pc = "xk_sign_legacy"
    /\ \/ /\ calls' = calls \o << "Transaction.from", "legacyTx.partialSign" >>
          /\ partiallySigned' = Some(PartiallySigned(txBase64[1], "legacy"))
          /\ signedAs' = Append(signedAs, "legacy")
          /\ Goto("xk_sign")
       \/ \E e \in DecodeErrors :
             /\ Issue("Transaction.from")
             /\ UNCHANGED << partiallySigned, signedAs >>
             /\ x402Fetch_buildCatch(e)
       \/ \E e \in SignErrors :
             /\ calls' = calls \o << "Transaction.from", "legacyTx.partialSign" >>
             /\ UNCHANGED << partiallySigned, signedAs >>
             /\ x402Fetch_buildCatch(e)
    /\ UNCHANGED << outsideX402, op, koraClient, txBase64, koraSubmitted, koraResponse,
                    x402Args, x402Locals >>

\* Mutant: the payment is finalized with sign-and-send.
buildPaymentTransactionViaKora_sign_andSend ==
    /\ pc = "xk_sign"
    /\ Issue("kora.signAndSendTransaction")
    /\ koraSubmitted' = Append(koraSubmitted, partiallySigned[1])
    /\ \/ \E st \in SignedTransactions :
             /\ koraResponse' = Some(st)
             /\ serializedTransaction' = Some(st)
             /\ Goto("x_retry")
       \/ \E e \in KoraErrors :
             /\ UNCHANGED << koraResponse, serializedTransaction >>
             /\ x402Fetch_buildCatch(e)
    /\ UNCHANGED << outsideX402, op, koraClient, txBase64, partiallySigned, signedAs,
                    x402Args, initialResp, bodyText, requirements, cluster, rpc,
                    requests, paidResp >>

\* kora.signTransaction: Kora signs as fee payer without broadcasting.
buildPaymentTransactionViaKora_sign ==
    /\ pc = "xk_sign"
    /\ Issue("kora.signTransaction")
    /\ koraSubmitted' = Append(koraSubmitted, partiallySigned[1])
    /\ \/ \E st \in SignedTransactions :
             /\ koraResponse' = Some(st)
             /\ serializedTransaction' = Some(st)
             /\ Goto("x_retry")
       \/ \E e \in KoraErrors :
             /\ UNCHANGED << koraResponse, serializedTransaction >>
             /\ x402Fetch_buildCatch(e)
    /\ UNCHANGED << outsideX402, op, koraClient, txBase64, partiallySigned, signedAs,
                    x402Args, initialResp, bodyText, requirements, cluster, rpc,
                    requests, paidResp >>

\* Direct build: getOrCreateAssociatedTokenAccount for the sender.
buildPaymentTransaction_senderATA ==
    /\ pc = "xd_sender_ata"
    /\ Issue("getOrCreateAssociatedTokenAccount")
    /\ \/ Goto("xd_blockhash")
       \/ \E e \in ChainErrors : x402Fetch_buildCatch(e)
    /\ UNCHANGED << outsideX402, op, koraClient, koraLocals, x402Args, x402Locals >>

\* Direct build: connection.getLatestBlockhash().
buildPaymentTransaction_blockhash ==
    /\ pc = "xd_blockhash"
    /\ Issue("getLatestBlockhash")
    /\ \/ Goto("xd_sign")
       \/ \E e \in ChainErrors : x402Fetch_buildCatch(e)
    /\ UNCHANGED << outsideX402, op, koraClient, koraLocals, x402Args, x402Locals >>

\* Direct build: the transfer instruction, tx.sign(keypair), tx.serialize().
buildPaymentTransaction_sign ==
    /\ pc = "xd_sign"
    /\ calls' = calls \o << "createTransferInstruction", "tx.sign" >>
    /\ amountRaw' = Some(MathRound(requirements[1].amount))
    /\ serializedTransaction' = Some("directSignedTx")
    /\ Goto("x_retry")
    /\ UNCHANGED << usdcArgs, balance, op, koraClient, koraLocals, x402Args, initialResp,
                    bodyText, requirements, cluster, rpc, requests, paidResp,
                    rpcLocals, args,
                    raised, registryVars, solLocals, upd >>

\* Step 4: the same request again, with the X-Payment header.
x402Fetch_retry ==
    /\ pc = "x_retry"
    /\ Issue("fetch")
    /\ requests' = Append(requests,
                          PaidRequest(buildXPaymentHeader(serializedTransaction[1],
                                                          cluster[1])))
    /\ \/ \E st \in Statuses, b \in PlainBodies :
             /\ paidResp' = Some([ status |-> st, body |-> b ])
             /\ Goto("x_paid")
       \/ \E e \in FetchErrors :
             /\ UNCHANGED paidResp
             /\ x402Fetch_catch(e)
    /\ UNCHANGED << outsideX402, op, koraClient, koraLocals, x402Args, initialResp,
                    bodyText, requirements, cluster, rpc, serializedTransaction >>

\* Lines 340-341: the paid response is the result, whatever its status.
x402Fetch_paidResponse ==
    /\ pc = "x_paid"
    /\ UNCHANGED calls
    /\ \E r \in ReadJsonOrText(paidResp[1].body) :
          IF r.ok THEN Return(ResponseResult(paidResp[1], r.data))
                  ELSE x402Fetch_catch(r.err[1])
    /\ UNCHANGED << outsideX402, op, koraClient, koraLocals, x402Args, x402Locals >>

x402Fetch ==
    \/ x402Fetch_call
    \/ x402Fetch_initialRequest
    \/ x402Fetch_passThrough
    \/ x402Fetch_parseChallenge
    \/ buildPaymentTransaction
    \/ buildPaymentTransactionViaKora_build
    \/ buildPaymentTransactionViaKora_signVersioned
    \/ buildPaymentTransactionViaKora_signLegacy
    \/ buildPaymentTransactionViaKora_sign
    \/ buildPaymentTransaction_senderATA
    \/ buildPaymentTransaction_blockhash
    \/ buildPaymentTransaction_sign
    \/ x402Fetch_retry
    \/ x402Fetch_paidResponse

\* =========================================================== leaveFeedback

\* A caller invokes leaveFeedback(keypair, targetAgentAsset, score, comment,
\* network, rpcUrl, db, koraClient).
leaveFeedback_call ==
    /\ pc = "idle"
    /\ \E k \in BOOLEAN : koraClient' = k
    /\ op' = "leaveFeedback"
    /\ Goto("f_start")
    /\ UNCHANGED << outsideFeedback, calls, koraLocals >>

\* Mutant: leaveFeedback ignores the client it was given.
UseKoraForFeedback_ignored(client) == FALSE

\* if (koraClient) of leaveFeedback
UseKoraForFeedback(client) == client

\* The memo transaction of the Kora path: built locally with the holder as
\* fee payer, partially signed and serialized.
MemoTransaction ==
    [ tx |-> "memoTx", format |-> "legacy", feePayer |-> "holder", signedBy |-> {"holder"} ]

\* Kora path: getLatestBlockhash, then build, partialSign and serialize.
leaveFeedback_blockhash ==
    /\ pc = "f_start"
    /\ UseKoraForFeedback(koraClient)
    /\ \/ /\ calls' = calls \o << "getLatestBlockhash", "legacyTx.partialSign" >>
          /\ partiallySigned' = Some(MemoTransaction)
          /\ signedAs' = Append(signedAs, "legacy")
          /\ Goto("f_finalize")
       \/ \E e \in ChainErrors :
             /\ Issue("getLatestBlockhash")
             /\ UNCHANGED << partiallySigned, signedAs >>
             /\ Reject(e)
    /\ UNCHANGED << outsideFeedback, op, koraClient, txBase64, koraSubmitted, koraResponse >>

\* Kora path: kora.signAndSendTransaction; its signature is returned.
leaveFeedback_finalize ==
    /\ pc = "f_finalize"
    /\ Issue("kora.signAndSendTransaction")
    /\ koraSubmitted' = Append(koraSubmitted, partiallySigned[1])
    /\ \/ \E s \in Signatures :
             /\ koraResponse' = Some(s)
             /\ ReturnValue(s)
       \/ \E e \in KoraErrors :
             /\ UNCHANGED koraResponse
             /\ Reject(e)
    /\ UNCHANGED << outsideFeedback, op, koraClient, txBase64, partiallySigned, signedAs >>

\* Direct path: sendAndConfirmTransaction with the holder paying.
leaveFeedback_direct ==
    /\ pc = "f_start"
    /\ ~UseKoraForFeedback(koraClient)
    /\ Issue("sendAndConfirmTransaction")
    /\ \/ \E s \in Signatures : ReturnValue(s)
       \/ \E e \in ChainErrors : Reject(e)
    /\ UNCHANGED << outsideFeedback, op, koraClient, koraLocals >>

leaveFeedback ==
    \/ leaveFeedback_call
    \/ leaveFeedback_blockhash
    \/ leaveFeedback_finalize
    \/ leaveFeedback_direct

\* --------------------------------------------------------------- checkX402

\* A caller invokes checkX402(url).
checkX402_call ==
    /\ pc = "idle"
    /\ op' = "checkX402"
    /\ Goto("c_fetch")
    /\ UNCHANGED << calls, koraClient, koraLocals, usdcArgs, usdcLocals, x402Args,
                    x402Locals, rpcLocals, args,
                    raised, registryVars, solLocals, upd >>

\* `return null`
ReturnNull == ReturnValue(None)

\* Mutant: the probe lets the error through.
checkX402_catch_rethrow(err) == Reject(err)

\* catch { return null; }
checkX402_catch(err) ==
    /\ pc' = "done"
    /\ outcome' = "returned"
    /\ result' = NoResult
    /\ value' = Some(None)
    /\ thrown' = None
    /\ caught' = Some([ error |-> err, after |-> Len(calls') ])

\* fetch(url, { method: "GET" })
ProbeRequest == [ url |-> ResourceUrl, method |-> "GET", headers |-> {}, body |-> None ]

checkX402_fetch ==
    /\ pc = "c_fetch"
    /\ Issue("fetch")
    /\ requests' = Append(requests, ProbeRequest)
    /\ \/ \E st \in Statuses :
          \E b \in (IF st = 402 THEN ChallengeBodies ELSE PlainBodies) :
             /\ response' = Some([ status |-> st, body |-> b ])
             /\ Goto("c_response")
       \/ \E e \in FetchErrors :
             /\ UNCHANGED response
             /\ checkX402_catch(e)
    /\ UNCHANGED << op, koraClient, koraLocals, usdcArgs, usdcLocals, x402Args,
                    initialResp, bodyText, requirements, cluster, rpc,
                    serializedTransaction, paidResp, rpcMethod, args,
                    raised, registryVars, solLocals, upd >>

\* resp.json().catch(() => null): the parsed body, or null.
ReadJsonOrNull(body) == IF body.json THEN body ELSE NonObjectBody

\* Lines 357-359: null unless the status is 402, else what the body parses to.
checkX402_response ==
    /\ pc = "c_response"
    /\ UNCHANGED calls
    /\ IF response[1].status # 402
         THEN ReturnNull
         ELSE ReturnValue(parsePaymentRequirements(ReadJsonOrNull(response[1].body)))
    /\ UNCHANGED << op, koraClient, koraLocals, usdcArgs, usdcLocals, x402Args,
                    x402Locals, rpcLocals, args,
                    raised, registryVars, solLocals, upd >>

checkX402 ==
    \/ checkX402_call
    \/ checkX402_fetch
    \/ checkX402_response

\* -------------------------------------------------------------- KoraClient

\* The JSON-RPC methods the client forwards to rpc().
KoraMethods ==
    { "transferTransaction", "signAndSendTransaction", "signTransaction",
      "getPayerSigner", "getSupportedTokens", "estimateTransactionFee" }

\* The keys of `params` each method sends.
ParamsOf(m) ==
    CASE m = "transferTransaction" -> { "amount", "token", "source", "destination" }
      [] m \in { "signAndSendTransaction", "signTransaction" } -> { "transaction" }
      [] m = "estimateTransactionFee" -> { "transaction", "fee_token" }
      [] OTHER -> {}

KoraRpcUrl == "http://localhost:8080"

\* The `error` member of a response body: absent, null, or { code, message }.
NoRpcError == [ t |-> "undefined", code |-> 0, message |-> "" ]
NullRpcError == [ t |-> "null", code |-> 0, message |-> "" ]
RpcError(c, m) == [ t |-> "object", code |-> c, message |-> m ]
RpcErrors == { RpcError(-32600, "Invalid params"), RpcError(0, "") }

\* Response bodies of the Kora server: text that is not JSON, the JSON value
\* null, or an object with its `error` and `result` members.
KoraBodies ==
    { [ kind |-> "not json", error |-> NoRpcError, result |-> None ],
      [ kind |-> "null", error |-> NoRpcError, result |-> None ] }
    \cup { [ kind |-> "object", error |-> e, result |-> r ] :
             e \in { NoRpcError, NullRpcError } \cup RpcErrors,
             r \in { None, Some("resultObject") } }

\* status and statusText of the responses.
KoraStatuses ==
    { [ status |-> 200, statusText |-> "OK" ],
      [ status |-> 204, statusText |-> "No Content" ],
      [ status |-> 404, statusText |-> "Not Found" ],
      [ status |-> 500, statusText |-> "Internal Server Error" ] }

JsonErrors ==
    { [ name |-> "SyntaxError", message |-> << "Unexpected token < in JSON at position 0" >> ] }
NullAccessErrors ==
    { [ name |-> "TypeError",
        message |-> << "Cannot read properties of null (reading 'error')" >> ] }
TransportErrors ==
    { [ name |-> "TypeError", message |-> << "fetch failed" >> ],
      [ name |-> "Error", message |-> << "connect ECONNREFUSED 127.0.0.1:8080" >> ] }

\* A caller invokes one of the client's methods; isAvailable calls
\* getPayerSigner.
KoraClient_call ==
    /\ pc = "idle"
    /\ \E m \in KoraMethods \cup { "isAvailable" } :
          /\ op' = m
          /\ rpcMethod' = IF m = "isAvailable" THEN "getPayerSigner" ELSE m
    /\ Goto("rpc_fetch")
    /\ UNCHANGED << calls, koraClient, koraLocals, usdcArgs, usdcLocals, x402Args,
                    x402Locals, response, args,
                    raised, registryVars, solLocals, upd >>

\* Mutant: isAvailable has no catch.
KoraClient_throw_uncaught(err) == Reject(err)

\* An error thrown inside rpc(): the method's promise rejects with it, except
\* in isAvailable, whose catch returns false.
KoraClient_throw(err) ==
    IF op = "isAvailable"
      THEN /\ pc' = "done"
           /\ outcome' = "returned"
           /\ result' = NoResult
           /\ value' = Some(FALSE)
           /\ thrown' = None
           /\ caught' = Some([ error |-> err, after |-> Len(calls') ])
      ELSE Reject(err)

\* rpc() returns v: the method returns it; isAvailable returns true.
KoraClient_return(v) ==
    IF op = "isAvailable" THEN ReturnValue(TRUE) ELSE ReturnValue(v)

\* The JSON-RPC 2.0 envelope POSTed to the configured endpoint.
RpcRequest(m) ==
    [ url |-> KoraRpcUrl, method |-> "POST", headers |-> ContentTypeJson,
      body |-> Some([ jsonrpc |-> "2.0", id |-> 1, method |-> m, params |-> ParamsOf(m) ]) ]

\* Mutant: a failure of the network call is wrapped in a client error.
KoraClient_rpc_fetch_wrapped ==
    /\ pc = "rpc_fetch"
    /\ Issue("fetch")
    /\ requests' = Append(requests, RpcRequest(rpcMethod))
    /\ \/ \E st \in KoraStatuses, b \in KoraBodies :
             /\ response' = Some([ status |-> st.status, statusText |-> st.statusText,
                                   body |-> b ])
             /\ UNCHANGED raised
             /\ Goto("rpc_status")
       \/ \E e \in TransportErrors :
             /\ UNCHANGED response
             /\ raised' = Append(raised, [ by |-> "client", error |-> e ])
             /\ KoraClient_throw([ name |-> "Error",
                                   message |-> << "Kora RPC request failed: " >>
                                               \o e.message ])
    /\ UNCHANGED << op, koraClient, koraLocals, usdcArgs, usdcLocals, x402Args,
                    initialResp, bodyText, requirements, cluster, rpc,
                    serializedTransaction, paidResp, rpcMethod, args, registryVars, solLocals, upd >>

\* Lines 401-410: the POST.  Nothing catches what fetch throws.
KoraClient_rpc_fetch ==
    /\ pc = "rpc_fetch"
    /\ Issue("fetch")
    /\ requests' = Append(requests, RpcRequest(rpcMethod))
    /\ \/ \E st \in KoraStatuses, b \in KoraBodies :
             /\ response' = Some([ status |-> st.status, statusText |-> st.statusText,
                                   body |-> b ])
             /\ UNCHANGED raised
             /\ Goto("rpc_status")
       \/ \E e \in TransportErrors :
             /\ UNCHANGED response
             /\ raised' = Append(raised, [ by |-> "client", error |-> e ])
             /\ KoraClient_throw(e)
    /\ UNCHANGED << op, koraClient, koraLocals, usdcArgs, usdcLocals, x402Args,
                    initialResp, bodyText, requirements, cluster, rpc,
                    serializedTransaction, paidResp, rpcMethod, args, registryVars, solLocals, upd >>

\* Mutant: only server errors count as HTTP failures.
IsHttpFailure_serverErrorsOnly(resp) == resp.status >= 500

\* !response.ok
IsHttpFailure(resp) == ~IsOk(resp.status)

HttpError(resp) ==
    [ name |-> "Error",
      message |-> << "Kora RPC HTTP error: ", ToString(resp.status), " ", resp.statusText >> ]

\* Lines 412-414: a response that is not ok throws before the body is read.
KoraClient_rpc_status ==
    /\ pc = "rpc_status"
    /\ UNCHANGED calls
    /\ IF IsHttpFailure(response[1])
         THEN KoraClient_throw(HttpError(response[1]))
         ELSE Goto("rpc_json")
    /\ UNCHANGED << op, koraClient, koraLocals, usdcArgs, usdcLocals, x402Args,
                    x402Locals, rpcLocals, args,
                    raised, registryVars, solLocals, upd >>

\* Mutant: an error is reported only when there is no result.
HasRpcError_unlessResult(json) == json.error.t = "object" /\ json.result = None

\* if (json.error): null and undefined are falsy, an object is truthy.
HasRpcError(json) == json.error.t = "object"

ProtocolError(e) ==
    [ name |-> "Error",
      message |-> << "Kora RPC error [", ToString(e.code), "]: ", e.message >> ]

\* Lines 416-422: read the body as JSON; throw on `error`, else return
\* `result`.
KoraClient_rpc_json ==
    /\ pc = "rpc_json"
    /\ Issue("response.json")
    /\ LET json == response[1].body IN
       CASE json.kind = "not json" -> \E e \in JsonErrors : KoraClient_throw(e)
         [] json.kind = "null" -> \E e \in NullAccessErrors : KoraClient_throw(e)
         [] OTHER -> IF HasRpcError(json)
                       THEN KoraClient_throw(ProtocolError(json.error))
                       ELSE KoraClient_return(json.result)
    /\ UNCHANGED << op, koraClient, koraLocals, usdcArgs, usdcLocals, x402Args,
                    x402Locals, rpcLocals, args,
                    raised, registryVars, solLocals, upd >>

KoraClient ==
    \/ KoraClient_call
    \/ KoraClient_rpc_fetch
    \/ KoraClient_rpc_status
    \/ KoraClient_rpc_json

\* =========================================================== registerAgent

MAX_RETRIES == 3
RETRY_DELAY_MS == 2000

\* keypair (by the holder's address) and agentName of a call.
Identities ==
    { [ holder |-> "HolderA", agentName |-> "alpha" ],
      [ holder |-> "HolderA", agentName |-> "beta" ],
      [ holder |-> "HolderB", agentName |-> "alpha" ] }
RegistryNetworks == { "mainnet-beta", "devnet" }
AgentCardUri == "https://agent.example/card.json"

\* What the store holds when the first call is made: nothing, or an entry
\* written earlier.
StoredEntry(n) ==
    [ assetAddress |-> << "ed25519", "earlier" >>,
      agentURI |-> "https://agent.example/old-card.json",
      network |-> n, txSignature |-> "sigEarlier", registeredAt |-> "earlier" ]
InitialStores == { None } \cup { Some(StoredEntry(n)) : n \in RegistryNetworks }

\* Errors createV1(...).sendAndConfirm(umi) fails with.
AlreadyExistsErrors ==
    { [ name |-> "SendTransactionError",
        message |-> << "Allocate: account Address { address: asset } ", "already in use" >> ],
      [ name |-> "Error", message |-> << "Account Already Exists" >> ] }
TransientErrors ==
    { [ name |-> "Error", message |-> << "Blockhash not found" >> ],
      [ name |-> "Error", message |-> << "429 Too Many Requests" >> ] }
CreateErrors == AlreadyExistsErrors \cup TransientErrors

\* bs58.encode(signature) of a create that was confirmed.
CreateSignatures == { "sigCreate" }

\* String(err) and `${err}` of an Error object with a message.
StringOf(err) == << err.name, ": " >> \o err.message

\* toLowerCase(), on the texts of this model.
ToLowerCase(t) ==
    CASE t = "Account Already Exists" -> "account already exists"
      [] t = "Error"                  -> "error"
      [] t = "SendTransactionError"   -> "sendtransactionerror"
      [] t = "Blockhash not found"    -> "blockhash not found"
      [] t = "429 Too Many Requests"  -> "429 too many requests"
      [] t = "Allocate: account Address { address: asset } "
                                      -> "allocate: account address { address: asset } "
      [] OTHER                        -> t

IdempotencyPhrases ==
    { "already in use", "account already exists", "already initialized",
      "custom program error: 0x0" }

\* Mutant: nothing is recognised as already-exists.
isIdempotencyError_never(err) == FALSE

\* Mutant: every failure is recognised as already-exists.
isIdempotencyError_always(err) == TRUE

\* String(err).toLowerCase() includes one of the phrases.
isIdempotencyError(err) ==
    \E i \in DOMAIN StringOf(err) : ToLowerCase(StringOf(err)[i]) \in IdempotencyPhrases

\* createHash("sha256").update(a).update(b).update(c).digest()
Sha256(text) == << "sha256" >> \o text
\* Keypair.fromSeed(seed).publicKey
FromSeed(seed) == << "ed25519" >> \o seed

\* Mutant: the network is hashed into the seed as well.
AssetAddressOf_perNetwork(holder, agentName, n) ==
    FromSeed(Sha256(<< "automaton-registry-v1", holder, agentName, n >>))

\* Lines 152-164: the asset address, derived once, before the loop, from
\* the domain string, the holder's address and the agent name; the network,
\* though in scope, is not hashed.
AssetAddressOf(holder, agentName, n) ==
    FromSeed(Sha256(<< "automaton-registry-v1", holder, agentName >>))

\* The store is handed to every call.
InitRegistry ==
    /\ op = "none"
    /\ pc = "idle"
    /\ outcome = "pending"
    /\ result = NoResult
    /\ value = None
    /\ thrown = None
    /\ caught = None
    /\ calls = <<>>
    /\ koraClient \in BOOLEAN
    /\ amountUSDC = 0
    /\ recipientAddress = "RecipientWallet"
    /\ network = "mainnet-beta"
    /\ balance = None
    /\ amountRaw = None
    /\ txBase64 = None
    /\ partiallySigned = None
    /\ signedAs = <<>>
    /\ koraSubmitted = <<>>
    /\ koraResponse = None
    /\ reqMethod = "GET"
    /\ reqBody = None
    /\ reqHeaders = {}
    /\ rpcUrl = None
    /\ initialResp = None
    /\ bodyText = None
    /\ requirements = None
    /\ cluster = None
    /\ rpc = None
    /\ serializedTransaction = None
    /\ requests = <<>>
    /\ paidResp = None
    /\ rpcMethod = "none"
    /\ response = None
    /\ args = None
    /\ raised = << >>
    /\ reg = [ p \in Callers |-> IdleCall ]
    /\ db \in InitialStores
    /\ dbWrites = << >>
    /\ created = {}
    /\ chain = {}
    /\ amountSol = 0
    /\ lamports = None
    /\ upd = IdleUpdate

\* What the registry actions leave alone.
outsideRegistry ==
    << pc, outcome, result, value, thrown, caught, calls, koraClient, koraLocals,
       usdcArgs, usdcLocals, x402Args, x402Locals, rpcLocals, args, solLocals, upd >>

\* One create attempt of the call of p, as issued.
CreateAttempt(p, c) ==
    [ caller |-> p, attempt |-> c.attempt, holder |-> c.holder,
      agentName |-> c.agentName, network |-> c.network,
      asset |-> c.assetSigner[1], viaKora |-> c.koraClient ]

\* Mutant: the store is not consulted.
IsRegistered_never(existing, n) == FALSE

\* Mutant: an entry for any network counts.
IsRegistered_anyNetwork(existing, n) == existing # None

\* existing && existing.network === network
IsRegistered(existing, n) == existing # None /\ existing[1].network = n

\* Lines 138-169: the call up to its first await.  The store is read; a
\* matching entry is returned; otherwise the asset signer is derived and the
\* first create attempt is issued.
registerAgent_call(p) ==
    /\ reg[p].pc = "idle"
    /\ op' = "registerAgent"
    /\ \E id \in Identities, n \in RegistryNetworks :
          LET c == [ reg[p] EXCEPT !.holder = id.holder, !.agentName = id.agentName,
                                   !.network = n, !.koraClient = koraClient,
                                   !.existing = db ]
          IN  IF IsRegistered(db, n)
                THEN /\ reg' = [ reg EXCEPT ![p] =
                                   [ c EXCEPT !.pc = "done", !.outcome = "returned",
                                              !.returned = db ] ]
                     /\ UNCHANGED created
                ELSE LET c1 == [ c EXCEPT !.pc = "r_create", !.attempt = 1,
                                          !.assetSigner =
                                             Some(AssetAddressOf(id.holder, id.agentName, n)) ]
                     IN  /\ reg' = [ reg EXCEPT ![p] = c1 ]
                         /\ created' = created \cup { CreateAttempt(p, c1) }
    /\ UNCHANGED << outsideRegistry, raised, db, dbWrites, chain >>

\* The entry of lines 178-184 and 194-200.
NewEntry(p, c, sig) ==
    [ assetAddress |-> c.assetSigner[1], agentURI |-> AgentCardUri,
      network |-> c.network, txSignature |-> sig, registeredAt |-> p ]

\* Mutant: the entry is written twice.
registerAgent_store_twice(p, c, entry) ==
    /\ db' = Some(entry)
    /\ dbWrites' = dbWrites \o << entry, entry >>
    /\ reg' = [ reg EXCEPT ![p] =
                  [ c EXCEPT !.pc = "done", !.outcome = "returned",
                             !.returned = Some(entry) ] ]

\* db.setRegistryEntry(entry); return entry;
registerAgent_store(p, c, entry) ==
    /\ db' = Some(entry)
    /\ dbWrites' = Append(dbWrites, entry)
    /\ reg' = [ reg EXCEPT ![p] =
                  [ c EXCEPT !.pc = "done", !.outcome = "returned",
                             !.returned = Some(entry) ] ]

\* `Failed to register agent after ${MAX_RETRIES} attempts: ${lastError}`
RegistrationFailed(lastError) ==
    [ name |-> "Error",
      message |-> << "Failed to register agent after ", ToString(MAX_RETRIES),
                     " attempts: " >> \o StringOf(lastError) ]

\* Mutant: the loop allows one attempt more.
LoopContinues_oneMore(attempt) == attempt <= MAX_RETRIES + 1

\* attempt <= MAX_RETRIES, the condition of the loop
LoopContinues(attempt) == attempt <= MAX_RETRIES

\* attempt < MAX_RETRIES, the condition of the sleep
SleepsAfter(attempt) == attempt < MAX_RETRIES

\* attempt++ and the head of the loop: the next create attempt is issued, or
\* the loop is left and lines 211-213 throw.
registerAgent_loop(p, c) ==
    LET n == [ c EXCEPT !.attempt = @ + 1 ] IN
    IF LoopContinues(n.attempt)
      THEN /\ reg' = [ reg EXCEPT ![p] = [ n EXCEPT !.pc = "r_create" ] ]
           /\ created' = created \cup { CreateAttempt(p, n) }
      ELSE /\ reg' = [ reg EXCEPT ![p] =
                         [ c EXCEPT !.pc = "done", !.outcome = "rejected",
                                    !.thrown = Some(RegistrationFailed(c.lastError[1])) ] ]
           /\ UNCHANGED created

\* Mutant: the same delay before every retry.
RetryDelay_fixed(attempt) == RETRY_DELAY_MS

\* RETRY_DELAY_MS * attempt, the argument of sleep
RetryDelay(attempt) == RETRY_DELAY_MS * attempt

\* The chain holds an account at the address.
OnChain(asset) == asset \in chain
\* The chain after the create attempt of the call landed.
Landed(c) == chain \cup { c.assetSigner[1] }

\* Lines 168-208: one create attempt settles.  Success stores and returns the
\* entry; an already-exists failure stores and returns an entry marked
\* "already-registered"; after another failure the call sleeps, or, when
\* there is no sleep, goes round the loop at once.  The chain creates the
\* asset account when its address is free, and answers already-exists when
\* it is taken; a create that was not confirmed may have landed all the same.
registerAgent_create(p) ==
    /\ reg[p].pc = "r_create"
    /\ \/ /\ ~OnChain(reg[p].assetSigner[1])
          /\ chain' = Landed(reg[p])
          /\ \E sig \in CreateSignatures :
                registerAgent_store(p, reg[p], NewEntry(p, reg[p], sig))
          /\ UNCHANGED created
       \/ \E err \in CreateErrors, lands \in BOOLEAN :
             LET c == [ reg[p] EXCEPT !.lastError = Some(err),
                                      !.failures = Append(@, err) ] IN
             /\ err \in AlreadyExistsErrors => OnChain(c.assetSigner[1])
             /\ lands => ~OnChain(c.assetSigner[1]) /\ err \in TransientErrors
             /\ chain' = IF lands THEN Landed(c) ELSE chain
             /\ IF isIdempotencyError(err)
                  THEN /\ registerAgent_store(p, c, NewEntry(p, c, "already-registered"))
                       /\ UNCHANGED created
                  ELSE /\ UNCHANGED << db, dbWrites >>
                       /\ IF SleepsAfter(c.attempt)
                            THEN /\ reg' = [ reg EXCEPT ![p] =
                                     [ c EXCEPT !.pc = "r_sleep",
                                                !.waits = Append(@, RetryDelay(c.attempt)) ] ]
                                 /\ UNCHANGED created
                            ELSE registerAgent_loop(p, c)
    /\ UNCHANGED << outsideRegistry, op, raised >>

\* The sleep is over: round the loop.
registerAgent_retry(p) ==
    /\ reg[p].pc = "r_sleep"
    /\ registerAgent_loop(p, reg[p])
    /\ UNCHANGED << outsideRegistry, op, raised, db, dbWrites, chain >>

registerAgent ==
    \/ \E p \in Callers : registerAgent_call(p)
    \/ \E p \in Callers : registerAgent_create(p)
    \/ \E p \in Callers : registerAgent_retry(p)

NextRegistry == registerAgent

SpecRegistry == InitRegistry /\ [][NextRegistry]_vars

\* Every create attempt the program awaits settles, and every sleep ends.
FairRegistry ==
    \A p \in Callers : WF_vars(registerAgent_create(p)) /\ WF_vars(registerAgent_retry(p))

SpecRegistryFair == SpecRegistry /\ FairRegistry

\* ----------------------------------------------------------- updateAgentURI

\* assetAddress: the asset of the stored entry, or another asset.
UpdateAssets == { StoredEntry("devnet").assetAddress, AssetAddressOf("HolderA", "alpha", "devnet") }
NewAgentURIs == { "https://agent.example/card-v2.json", "https://agent.example/card-v3.json" }
\* bs58.encode(signature) of an update that was confirmed.
UpdateSignatures == { "sigUpdateA", "sigUpdateB" }
\* Errors updateV1(...).sendAndConfirm(umi) fails with.
UpdateErrors ==
    { [ name |-> "Error", message |-> << "Blockhash not found" >> ],
      [ name |-> "Error", message |-> << "Invalid Authority" >> ] }

outsideUpdate ==
    << pc, outcome, result, value, thrown, caught, calls, koraClient, koraLocals,
       usdcArgs, usdcLocals, x402Args, x402Locals, rpcLocals, args, solLocals, raised,
       reg, created, chain >>

\* Lines 230-241: the call up to its await; the update is sent.
updateAgentURI_call ==
    /\ upd.pc = "idle"
    /\ op' = "updateAgentURI"
    /\ \E a \in UpdateAssets, u \in NewAgentURIs, n \in RegistryNetworks :
          upd' = [ upd EXCEPT !.pc = "u_send", !.assetAddress = a, !.newAgentURI = u,
                              !.network = n, !.koraClient = koraClient, !.before = db ]
    /\ UNCHANGED << outsideUpdate, db, dbWrites >>

\* Mutant: the stored signature is left as it was.
UpdatedEntry_uriOnly(entry, uri, sig) == [ entry EXCEPT !.agentURI = uri ]

\* entry.agentURI = newAgentURI; entry.txSignature = txSig;
UpdatedEntry(entry, uri, sig) == [ entry EXCEPT !.agentURI = uri, !.txSignature = sig ]

\* Lines 238-252: the update settles.  When it failed the call rejects; when
\* it was confirmed the store is read, the entry found - whatever its asset -
\* is changed and written back, and the signature is returned.
updateAgentURI_send ==
    /\ upd.pc = "u_send"
    /\ \/ \E sig \in UpdateSignatures :
             /\ upd' = [ upd EXCEPT !.pc = "done", !.outcome = "returned", !.found = db,
                                    !.returned = Some(sig) ]
             /\ IF db # None
                  THEN /\ db' = Some(UpdatedEntry(db[1], upd.newAgentURI, sig))
                       /\ dbWrites' = Append(dbWrites, UpdatedEntry(db[1], upd.newAgentURI, sig))
                  ELSE UNCHANGED << db, dbWrites >>
       \/ \E err \in UpdateErrors :
             /\ upd' = [ upd EXCEPT !.pc = "done", !.outcome = "rejected",
                                    !.thrown = Some(err) ]
             /\ UNCHANGED << db, dbWrites >>
    /\ UNCHANGED << outsideUpdate, op >>

updateAgentURI ==
    \/ updateAgentURI_call
    \/ updateAgentURI_send

NextUpdate == updateAgentURI

SpecUpdate == InitRegistry /\ [][NextUpdate]_vars

\* ------------------------------------------- helper functions on their own

\* Cluster designators a server may send, or a caller may pass on.
ClusterDesignators ==
    { "mainnet", "mainnet-beta", "solana-mainnet", " Mainnet-Beta ", "MAINNET",
      "Solana-Mainnet", "devnet", "solana-devnet", "DEVNET", "testnet",
      "solana-testnet", " testnet", "localnet", "", " ", "mainnet beta", "production" }

\* Serialized transactions handed to buildXPaymentHeader.
TransactionStrings == { "", "AQID", "koraSignedTxA", "a\"b\\c", "directSignedTx" }

\* An object X as a server may send it: its own fields, and its `payment`
\* member (`paymentIsObject` : typeof object, not null; `payment` : the
\* fields of that member).
ObjectsX ==
    { [ fields |-> [ FullObject EXCEPT !.tokenAccount = a, !.mint = m, !.amount = n,
                                       !.recipientWallet = w, !.recipient = r ],
        paymentIsObject |-> p.isObject, payment |-> p.fields ] :
        a \in { FullObject.tokenAccount, Absent, Str(""), Num(2) },
        m \in { FullObject.mint, Absent, Str(""), JsonNull },
        n \in { FullObject.amount, Num(0), Num(3), Absent, Str("1000000"), JsonNull },
        w \in { FullObject.recipientWallet, Absent, Str("") },
        r \in { Absent, Str("OtherRecipient"), Num(1) },
        p \in { [ isObject |-> FALSE, fields |-> EmptyObject ],
                [ isObject |-> TRUE, fields |-> EmptyObject ],
                [ isObject |-> TRUE,
                  fields |-> [ FullObject EXCEPT !.mint = Str("OtherMint") ] ] } }

\* The body X itself, and the body { payment: X }.
FlatOf(X) ==
    [ json |-> TRUE, object |-> TRUE, fields |-> X.fields,
      paymentIsObject |-> X.paymentIsObject, payment |-> X.payment, text |-> "X" ]
NestedOf(X) ==
    [ json |-> TRUE, object |-> TRUE, fields |-> EmptyObject,
      paymentIsObject |-> TRUE, payment |-> X.fields, text |-> "{payment:X}" ]

NoArgs ==
    [ fn |-> "none", X |-> [ fields |-> EmptyObject, paymentIsObject |-> FALSE,
                             payment |-> EmptyObject ],
      serializedTransaction |-> "", cluster |-> "" ]
HelperArgs ==
    { [ NoArgs EXCEPT !.fn = "parsePaymentRequirements", !.X = x ] : x \in ObjectsX }
    \cup { [ NoArgs EXCEPT !.fn = "buildXPaymentHeader", !.serializedTransaction = t,
                           !.cluster = c ] :
             t \in TransactionStrings, c \in ClusterDesignators }

\* The helpers are applied to arguments fixed at the start.
InitHelpers ==
    /\ op = "none"
    /\ pc = "idle"
    /\ outcome = "pending"
    /\ result = NoResult
    /\ value = None
    /\ thrown = None
    /\ caught = None
    /\ calls = <<>>
    /\ koraClient = FALSE
    /\ amountUSDC = 0
    /\ recipientAddress = "RecipientWallet"
    /\ network = "mainnet-beta"
    /\ balance = None
    /\ amountRaw = None
    /\ txBase64 = None
    /\ partiallySigned = None
    /\ signedAs = <<>>
    /\ koraSubmitted = <<>>
    /\ koraResponse = None
    /\ reqMethod = "GET"
    /\ reqBody = None
    /\ reqHeaders = {}
    /\ rpcUrl = None
    /\ initialResp = None
    /\ bodyText = None
    /\ requirements = None
    /\ cluster = None
    /\ rpc = None
    /\ serializedTransaction = None
    /\ requests = <<>>
    /\ paidResp = None
    /\ rpcMethod = "none"
    /\ response = None
    /\ \E a \in HelperArgs : args = Some(a)
    /\ raised = << >>
    /\ reg = [ p \in Callers |-> IdleCall ]
    /\ db = None
    /\ dbWrites = << >>
    /\ created = {}
    /\ chain = {}
    /\ amountSol = 0
    /\ lamports = None
    /\ upd = IdleUpdate

\* parsePaymentRequirements applied to the body X and to the body
\* { payment: X }.
parsePaymentRequirements_apply ==
    /\ pc = "idle"
    /\ args # None
    /\ args[1].fn = "parsePaymentRequirements"
    /\ op' = "parsePaymentRequirements"
    /\ ReturnValue([ flat |-> parsePaymentRequirements(FlatOf(args[1].X)),
                     nested |-> parsePaymentRequirements(NestedOf(args[1].X)) ])
    /\ UNCHANGED << calls, koraClient, koraLocals, usdcArgs, usdcLocals, x402Args,
                    x402Locals, rpcLocals, args,
                    raised, registryVars, solLocals, upd >>

\* buildXPaymentHeader applied to a transaction string and a designator.
buildXPaymentHeader_apply ==
    /\ pc = "idle"
    /\ args # None
    /\ args[1].fn = "buildXPaymentHeader"
    /\ op' = "buildXPaymentHeader"
    /\ ReturnValue(buildXPaymentHeader(args[1].serializedTransaction, args[1].cluster))
    /\ UNCHANGED << calls, koraClient, koraLocals, usdcArgs, usdcLocals, x402Args,
                    x402Locals, rpcLocals, args,
                    raised, registryVars, solLocals, upd >>

NextHelpers ==
    \/ parsePaymentRequirements_apply
    \/ buildXPaymentHeader_apply

SpecHelpers == InitHelpers /\ [][NextHelpers]_vars

\* -------------------------------------------------------------------- Spec

Next ==
    \/ transferUsdc
    \/ transferSol
    \/ x402Fetch
    \/ leaveFeedback
    \/ checkX402
    \/ KoraClient

Spec == Init /\ [][Next]_vars

\* ================================================================== claims

Issued == { calls[i] : i \in DOMAIN calls }
CountCalls(name) == Cardinality({ i \in DOMAIN calls : calls[i] = name })
Done == pc = "done"

KoraCalls ==
    { "kora.transferTransaction", "kora.signAndSendTransaction", "kora.signTransaction" }
\* The submission primitives of the direct path.
DirectCalls ==
    { "getOrCreateAssociatedTokenAccount", "transfer", "sendAndConfirmTransaction",
      "createTransferInstruction", "tx.sign" }
NetworkMutatingCalls ==
    KoraCalls \cup { "getOrCreateAssociatedTokenAccount", "transfer",
                     "sendAndConfirmTransaction" }
LocalSignCalls ==
    { "VersionedTransaction.deserialize", "versionedTx.sign", "Transaction.from",
      "legacyTx.partialSign" }

\* C1: in transferUsdc, once the balance b is known and the amount a exceeds
\* half of it, no network-mutating call is ever issued, with or without a
\* Kora client, and the call ends with success = false and the safety-limit
\* error.
C1_SafetyLimitBlocksTransfer ==
    ( op = "transferUsdc" /\ balance # None /\ 2 * amountUSDC > balance[1] ) =>
        /\ Issued \cap NetworkMutatingCalls = {}
        /\ pc \in { "usdc_check", "done" }
        /\ Done => /\ outcome = "returned"
                   /\ result.success = FALSE
                   /\ result.txSignature = None
                   /\ result.error # None
                   /\ result.error[1][1] =
                        "Safety limit: cannot send more than 50% of balance ("

\* C1 witness: a call with a Kora client, refused for an amount above half
\* of a positive balance.
C1_Witness ==
    /\ op = "transferUsdc" /\ Done /\ koraClient
    /\ balance # None /\ balance[1] > 0
    /\ 2 * amountUSDC > balance[1] /\ amountUSDC <= balance[1]
    /\ result.success = FALSE

\* C2: a transferUsdc call with a Kora client that succeeds has issued, in
\* this order, the balance query, exactly one transferTransaction, the local
\* decode and signature (signed exactly once, in one format) and exactly one
\* signAndSendTransaction of that signed transaction; it carries the
\* signature finalize returned.  And whenever finalize returned, the call
\* succeeds.
C2_KoraPathOrder ==
    ( op = "transferUsdc" /\ koraClient /\ Done ) =>
        /\ result.success =>
            /\ Len(calls) >= 4
            /\ calls[1] = "getTokenAccountBalance"
            /\ calls[2] = "kora.transferTransaction"
            /\ calls[Len(calls)] = "kora.signAndSendTransaction"
            /\ \A i \in 3..(Len(calls) - 1) : calls[i] \in LocalSignCalls
            /\ CountCalls("kora.transferTransaction") = 1
            /\ CountCalls("kora.signAndSendTransaction") = 1
            /\ Len(signedAs) = 1
            /\ koraSubmitted = << PartiallySigned(txBase64[1], signedAs[1]) >>
            /\ koraResponse # None
            /\ result.txSignature = SignatureOf(koraResponse[1])
            /\ outcome = "returned"
        /\ koraResponse # None => result.success

\* C2 witness: a successful transfer through Kora.
C2_Witness ==
    /\ op = "transferUsdc" /\ koraClient /\ Done
    /\ result.success
    /\ signedAs = << "versioned" >>

\* C3: with a Kora client, transferUsdc never issues a direct-path call; a
\* call in which a fee-payer step failed ends with success = false.
C3_NoFallbackToDirect ==
    ( op = "transferUsdc" /\ koraClient ) =>
        /\ Issued \cap { "getOrCreateAssociatedTokenAccount", "transfer" } = {}
        /\ ( Done /\ "kora.transferTransaction" \in Issued /\ koraResponse = None ) =>
              /\ outcome = "returned"
              /\ result.success = FALSE
              /\ result.error # None

\* C3 witness: the build succeeded, local signing failed, the call is over.
C3_Witness ==
    /\ op = "transferUsdc" /\ koraClient /\ Done
    /\ txBase64 # None /\ partiallySigned = None
    /\ result.success = FALSE

\* C4: in transferUsdc, leaveFeedback and x402Fetch, a call with a Kora
\* client issues no direct submission primitive, and a call without one
\* issues no Kora method.
C4_PathByPresenceOnly ==
    ( op \in { "transferUsdc", "leaveFeedback", "x402Fetch" } ) =>
        /\ koraClient => Issued \cap DirectCalls = {}
        /\ ~koraClient => Issued \cap KoraCalls = {}

\* C4 witness: leaveFeedback with a Kora client returned Kora's signature.
C4_Witness ==
    /\ op = "leaveFeedback" /\ koraClient /\ Done
    /\ value # None /\ value = koraResponse
    /\ "kora.signAndSendTransaction" \in Issued

\* C5 (as claimed): transferUsdc never rejects; every call resolves to a
\* result, and a result with success = false carries an error message.
C5_TransferUsdcNeverRejects ==
    ( op = "transferUsdc" /\ Done ) =>
        /\ outcome = "returned"
        /\ ~result.success => result.error # None

\* C6: on the fee-payer path of transferUsdc a caught failure ends the call
\* at once (no call is issued after it) with the error "Kora transfer
\* failed: " followed by the message of the error caught; a failure on the
\* direct path never carries that prefix.
C6_KoraFailureIsTerminalAndVerbatim ==
    ( op = "transferUsdc" ) =>
        /\ ( koraClient /\ caught # None ) =>
              /\ Done
              /\ Len(calls) = caught[1].after
              /\ "kora.transferTransaction" \in Issued
              /\ result.success = FALSE
              /\ result.error =
                   Some(<< "Kora transfer failed: ", caught[1].error.message >>)
        /\ ( ~koraClient /\ Done /\ outcome = "returned" /\ ~result.success ) =>
              result.error[1][1] # "Kora transfer failed: "

\* C6 witness: finalize failed with a Kora RPC error.
C6_Witness ==
    /\ op = "transferUsdc" /\ koraClient /\ Done
    /\ caught # None
    /\ calls[Len(calls)] = "kora.signAndSendTransaction"
    /\ caught[1].error.message = "Kora RPC error [-32600]: Invalid params"

\* C7 (as claimed): when the first response is not a 402, x402Fetch makes
\* one HTTP request and nothing else, and returns success = response.ok and
\* status = response.status.
C7_NonChallengePassesThrough ==
    ( op = "x402Fetch" /\ initialResp # None /\ initialResp[1].status # 402 ) =>
        /\ calls = << "fetch" >>
        /\ Len(requests) = 1
        /\ Done => /\ outcome = "returned"
                   /\ result.success = IsOk(initialResp[1].status)
                   /\ result.status = Some(initialResp[1].status)

\* The validation rule of the data model: tokenAccount, mint and a recipient
\* address present as non-empty strings, amount present as a number.
HasRequiredFields(o) ==
    /\ o.tokenAccount.t = "string" /\ o.tokenAccount.s # ""
    /\ o.mint.t = "string" /\ o.mint.s # ""
    /\ o.amount.t = "number"
    /\ \/ o.recipientWallet.t = "string" /\ o.recipientWallet.s # ""
       \/ o.recipientWallet.t # "string" /\ o.recipient.t = "string" /\ o.recipient.s # ""
CarriesValidRequirements(body) ==
    /\ body.json
    /\ body.object
    /\ HasRequiredFields(IF body.paymentIsObject THEN body.payment ELSE body.fields)

\* C8: when the body read from a 402 response is not JSON, or is JSON without
\* valid payment requirements, x402Fetch ends with success = false, status
\* 402 and an error, having issued the one HTTP request and nothing else.
C8_UnparseableChallengeStops ==
    ( op = "x402Fetch" /\ bodyText # None
      /\ ~CarriesValidRequirements(initialResp[1].body) ) =>
        /\ Done
        /\ outcome = "returned"
        /\ result.success = FALSE
        /\ result.status = Some(402)
        /\ result.error # None
        /\ calls = << "fetch" >>
        /\ Len(requests) = 1
        /\ requirements = None /\ serializedTransaction = None

\* C8 witness: a 402 whose body is JSON but lacks the mint.
C8_Witness ==
    /\ op = "x402Fetch" /\ Done /\ koraClient
    /\ bodyText = Some("nested-no-mint")
    /\ result.status = Some(402)

\* C9: when x402Fetch has parsed the requirements and ends without a built
\* transaction, on either path, the result is success = false, status 402
\* and "Failed to build x402 payment transaction: " followed by the message
\* of the failure, and only the initial HTTP request was made.
C9_BuildFailureStops ==
    ( op = "x402Fetch" /\ Done /\ requirements # None /\ serializedTransaction = None ) =>
        /\ outcome = "returned"
        /\ caught # None
        /\ result.success = FALSE
        /\ result.status = Some(402)
        /\ result.error =
             Some(<< "Failed to build x402 payment transaction: ",
                     caught[1].error.message >>)
        /\ Len(requests) = 1
        /\ CountCalls("fetch") = 1

\* C9 witness: Kora's build call failed.
C9_Witness ==
    /\ op = "x402Fetch" /\ Done /\ koraClient
    /\ requirements # None /\ serializedTransaction = None
    /\ calls = << "fetch", "kora.transferTransaction" >>
    /\ caught # None
    /\ caught[1].error.message = "Kora RPC HTTP error: 500 Internal Server Error"

\* C10 (as claimed): x402Fetch makes at most two HTTP requests and builds at
\* most one transaction, and the paid response is the result whatever its
\* status: success = its ok flag, status = its status.
C10_PaidResponseIsFinal ==
    ( op = "x402Fetch" ) =>
        /\ Len(requests) <= 2
        /\ CountCalls("fetch") <= 2
        /\ CountCalls("kora.transferTransaction") <= 1
        /\ CountCalls("kora.signTransaction") <= 1
        /\ CountCalls("tx.sign") <= 1
        /\ ( Done /\ paidResp # None ) =>
              /\ outcome = "returned"
              /\ result.success = IsOk(paidResp[1].status)
              /\ result.status = Some(paidResp[1].status)

\* What the server does with an X-Payment value: Buffer.from(v, "base64"),
\* then JSON.parse.
Base64Decode(v) == Tail(v)
IsBase64(v) == Len(v) > 0 /\ Head(v) = "base64"
JsonParsePayload(text) ==
    [ x402Version |-> text[2], scheme |-> text[4], network |-> text[6],
      payload |-> [ serializedTransaction |-> text[8] ] ]
IsPayloadJson(text) ==
    /\ Len(text) = 8
    /\ text[1] = "x402Version" /\ text[3] = "scheme" /\ text[5] = "network"
    /\ text[7] = "payload.serializedTransaction"
DecodeXPayment(v) == JsonParsePayload(Base64Decode(v))
\* The values of the header `name` in the request req.
HeaderValues(req, name) == { h[2] : h \in { g \in req.headers : g[1] = name } }
OtherHeaders(req, name) == { h \in req.headers : h[1] # name }

\* C11: x402Fetch with a Kora client never calls signAndSendTransaction and
\* calls transferTransaction and signTransaction at most once each; when the
\* paid request is issued each was called exactly once, and the transaction
\* decoded from the X-Payment header is the signed_transaction string that
\* signTransaction returned.
C11_KoraSignOnlyForPayment ==
    ( op = "x402Fetch" /\ koraClient ) =>
        /\ CountCalls("kora.signAndSendTransaction") = 0
        /\ CountCalls("kora.transferTransaction") <= 1
        /\ CountCalls("kora.signTransaction") <= 1
        /\ Len(requests) = 2 =>
              /\ CountCalls("kora.transferTransaction") = 1
              /\ CountCalls("kora.signTransaction") = 1
              /\ koraResponse # None
              /\ \A v \in HeaderValues(requests[2], "X-Payment") :
                    /\ IsBase64(v) /\ IsPayloadJson(Base64Decode(v))
                    /\ DecodeXPayment(v).payload.serializedTransaction = koraResponse[1]
              /\ Cardinality(HeaderValues(requests[2], "X-Payment")) = 1

\* C11 witness: a paid request carrying what Kora's signTransaction returned.
C11_Witness ==
    /\ op = "x402Fetch" /\ koraClient /\ Len(requests) = 2
    /\ koraResponse = Some("koraSignedTxB")
    /\ calls = << "fetch", "kora.transferTransaction",
                  "VersionedTransaction.deserialize", "Transaction.from",
                  "legacyTx.partialSign", "kora.signTransaction", "fetch" >>

\* C12: the paid retry goes to the URL of the first request with the same
\* method and the same body, and the two requests have the same headers
\* apart from X-Payment, which the retry carries.
C12_RetryPreservesRequest ==
    ( op = "x402Fetch" /\ Len(requests) = 2 ) =>
        /\ requests[2].url = requests[1].url
        /\ requests[2].method = requests[1].method
        /\ requests[2].body = requests[1].body
        /\ OtherHeaders(requests[2], "X-Payment") = OtherHeaders(requests[1], "X-Payment")
        /\ HeaderValues(requests[2], "X-Payment") # {}
        /\ requests[1].method = reqMethod /\ requests[1].body = reqBody
        /\ \A h \in reqHeaders : h[1] # "X-Payment" => h \in requests[2].headers

\* C12 witness: a POST with a body and an Authorization header, retried.
C12_Witness ==
    /\ op = "x402Fetch" /\ Len(requests) = 2
    /\ reqMethod = "POST" /\ reqBody # None
    /\ << "Authorization", << "Bearer token" >> >> \in requests[2].headers

\* JSON.parse of a number written by JSON.stringify.
DigitsToNumber(t) == CHOOSE n \in 0..9 : ToString(n) = t
CanonicalNetworks == { "solana-mainnet", "solana-devnet", "solana-testnet" }

PaymentObjectOf(body) == IF body.paymentIsObject THEN body.payment ELSE body.fields
DesignatorOf(body) ==
    LET o == PaymentObjectOf(body) IN
    IF o.cluster.t = "string" THEN Some(o.cluster.s)
    ELSE IF o.network.t = "string" THEN Some(o.network.s)
    ELSE None
\* The designators that read mainnet, devnet, testnet once trimmed and
\* lower-cased.
MainnetSpellings ==
    { "mainnet", "mainnet-beta", "solana-mainnet", " Mainnet-Beta ", "MAINNET",
      "Solana-Mainnet" }
DevnetSpellings == { "devnet", "solana-devnet", "DEVNET" }
TestnetSpellings == { "testnet", "solana-testnet", " testnet" }
XPaymentNetworks(req) ==
    { DecodeXPayment(v).network : v \in HeaderValues(req, "X-Payment") }

\* C14: in x402Fetch the challenge resolves to mainnet - as cluster, as
\* network name in the X-Payment header, as default RPC endpoint - only when
\* its designator is a spelling of mainnet; with no designator or an
\* unrecognised one the cluster is devnet, the header says solana-devnet and
\* the RPC endpoint, when the caller gave none, is the devnet endpoint.
C14_UnknownClusterIsDevnet ==
    ( op = "x402Fetch" /\ requirements # None ) =>
        LET d == DesignatorOf(initialResp[1].body)
            isMainnet == d # None /\ d[1] \in MainnetSpellings
            isKnown == d # None /\ d[1] \in MainnetSpellings \cup DevnetSpellings
                                              \cup TestnetSpellings
        IN  /\ cluster # None /\ rpc # None
            /\ cluster[1] = "mainnet-beta" => isMainnet
            /\ ( rpcUrl = None /\ rpc[1] = "https://api.mainnet-beta.solana.com" )
                  => isMainnet
            /\ Len(requests) = 2 =>
                  ( "solana-mainnet" \in XPaymentNetworks(requests[2]) => isMainnet )
            /\ ~isKnown =>
                  /\ cluster[1] = "devnet"
                  /\ rpcUrl = None => rpc[1] = "https://api.devnet.solana.com"
                  /\ Len(requests) = 2 =>
                        XPaymentNetworks(requests[2]) = { "solana-devnet" }

\* C14 witness: a paid request for a challenge whose designator is not
\* recognised, from a caller that gave no RPC endpoint.
C14_Witness ==
    /\ op = "x402Fetch" /\ Len(requests) = 2 /\ rpcUrl = None
    /\ DesignatorOf(initialResp[1].body) = Some("mainnet beta")
    /\ rpc = Some("https://api.devnet.solana.com")

NonEmptyString(f) == f.t = "string" /\ f.s # ""
\* One of the four required fields of the object o is missing or of the
\* wrong type.
LacksRequiredField(o) ==
    \/ o.tokenAccount.t # "string"
    \/ o.mint.t # "string"
    \/ o.amount.t # "number"
    \/ ( o.recipientWallet.t # "string" /\ o.recipient.t # "string" )
\* res, the result of parsing a body whose payment object is o, is either
\* null or filled from four well-formed fields of o.
AllOrNothing(o, res) ==
    /\ res # None =>
          /\ NonEmptyString(o.tokenAccount) /\ res[1].tokenAccount = o.tokenAccount.s
          /\ NonEmptyString(o.mint) /\ res[1].mint = o.mint.s
          /\ o.amount.t = "number" /\ res[1].amount = o.amount.n
          /\ res[1].recipientWallet # ""
          /\ \/ NonEmptyString(o.recipientWallet)
                  /\ res[1].recipientWallet = o.recipientWallet.s
             \/ NonEmptyString(o.recipient) /\ res[1].recipientWallet = o.recipient.s
    /\ LacksRequiredField(o) => res = None
    /\ ( NonEmptyString(o.tokenAccount) /\ NonEmptyString(o.mint)
         /\ o.amount.t = "number" /\ NonEmptyString(o.recipientWallet) ) => res # None

\* C15: parsePaymentRequirements returns requirements only from an object
\* whose tokenAccount, mint and recipient address are non-empty strings and
\* whose amount is a number, 0 included, and then with those very values; if
\* one of the four is missing or of the wrong type it returns null.
C15_RequirementsAllOrNothing ==
    ( op = "parsePaymentRequirements" /\ Done ) =>
        /\ AllOrNothing(PaymentObjectOf(FlatOf(args[1].X)), value[1].flat)
        /\ AllOrNothing(PaymentObjectOf(NestedOf(args[1].X)), value[1].nested)

\* C15 witness: an amount of 0 is accepted, the recipient taken from the
\* `recipient` field.
C15_Witness ==
    /\ op = "parsePaymentRequirements" /\ Done
    /\ args[1].X.fields.amount = Num(0)
    /\ args[1].X.fields.recipientWallet = Absent
    /\ value[1].nested # None
    /\ value[1].nested[1].amount = 0
    /\ value[1].nested[1].recipientWallet = "OtherRecipient"

\* C16 (as claimed): for every object X, parsePaymentRequirements gives the
\* same result for the body X and for the body { payment: X }.
C16_FlatAndNestedAgree ==
    ( op = "parsePaymentRequirements" /\ Done ) => value[1].flat = value[1].nested

\* C17: checkX402 issues one GET and nothing else; it always returns, never
\* throws: the requirements of the body, with its mint and amount, when the
\* status is 402 and the body holds valid requirements, and null otherwise -
\* another status, a body that is not JSON or not valid, a failed request.
C17_ProbeNeverPaysNeverThrows ==
    ( op = "checkX402" ) =>
        /\ Issued \subseteq { "fetch" }
        /\ Len(requests) = CountCalls("fetch") /\ Len(requests) <= 1
        /\ \A i \in DOMAIN requests : requests[i].method = "GET"
        /\ Done =>
              /\ outcome = "returned" /\ thrown = None
              /\ Len(requests) = 1
              /\ value # None
              /\ IF response # None /\ response[1].status = 402
                    /\ CarriesValidRequirements(response[1].body)
                   THEN /\ value[1] # None
                        /\ value[1][1].mint = PaymentObjectOf(response[1].body).mint.s
                        /\ value[1][1].amount = PaymentObjectOf(response[1].body).amount.n
                   ELSE value[1] = None

\* C17 witness: the request of the probe failed and the probe returned null.
C17_Witness ==
    /\ op = "checkX402" /\ Done
    /\ response = None /\ caught # None
    /\ value = Some(None)

\* C18: the promise of x402Fetch never rejects; when a request, the reading
\* of a body, the build or the paid retry failed, the call returns a result
\* with success = false and a non-empty error message.
C18_X402FetchNeverRejects ==
    ( op = "x402Fetch" ) =>
        /\ outcome # "rejected"
        /\ thrown = None
        /\ ( Done /\ caught # None ) =>
              /\ outcome = "returned"
              /\ result.success = FALSE
              /\ result.error # None
              /\ result.error[1] # << >>
              /\ \A i \in DOMAIN result.error[1] : result.error[1][i] # ""

\* C18 witness: the paid retry failed at the network level.
C18_Witness ==
    /\ op = "x402Fetch" /\ Done
    /\ Len(requests) = 2 /\ paidResp = None
    /\ caught # None /\ caught[1].error.message = "fetch failed"
    /\ result.error = Some(<< "fetch failed" >>)

\* C19: when a method of KoraClient gets a 2xx response whose body carries
\* error { code, message }, the call rejects with the message
\* "Kora RPC error [<code>]: <message>" and returns no result, whether or
\* not the body also has a result.
C19_RpcErrorRejects ==
    ( op \in KoraMethods /\ Done /\ response # None /\ IsOk(response[1].status)
      /\ response[1].body.kind = "object" /\ response[1].body.error.t = "object" ) =>
        /\ outcome = "rejected"
        /\ value = None
        /\ thrown # None
        /\ thrown[1].message =
             << "Kora RPC error [", ToString(response[1].body.error.code), "]: ",
                response[1].body.error.message >>

\* C19 witness: signTransaction answered 200 with both an error and a result.
C19_Witness ==
    /\ op = "signTransaction" /\ Done
    /\ response # None /\ response[1].status = 200
    /\ response[1].body.error = RpcError(-32600, "Invalid params")
    /\ response[1].body.result # None
    /\ outcome = "rejected"

\* C20: when a method of KoraClient gets a response that is not 2xx, the body
\* is never read and the call rejects with "Kora RPC HTTP error: <status>
\* <statusText>", also when the body is a JSON-RPC error.
C20_HttpFailureBeforeBody ==
    ( op \in KoraMethods /\ response # None /\ ~IsOk(response[1].status) ) =>
        /\ "response.json" \notin Issued
        /\ pc \in { "rpc_status", "done" }
        /\ Done =>
              /\ outcome = "rejected"
              /\ value = None
              /\ thrown # None
              /\ thrown[1].message =
                   << "Kora RPC HTTP error: ", ToString(response[1].status), " ",
                      response[1].statusText >>

\* C20 witness: transferTransaction answered 404 with a JSON-RPC error body.
C20_Witness ==
    /\ op = "transferTransaction" /\ Done
    /\ response # None /\ response[1].status = 404
    /\ response[1].body.error = RpcError(-32600, "Invalid params")
    /\ outcome = "rejected"

\* C21: when the network call of a KoraClient method other than isAvailable
\* rejects, the method rejects with that very error: same object, same name,
\* same message.
C21_TransportErrorUnwrapped ==
    ( op \in KoraMethods /\ raised # << >> ) =>
        /\ Done
        /\ outcome = "rejected"
        /\ response = None
        /\ Len(raised) = 1
        /\ thrown = Some(raised[1].error)
        /\ calls = << "fetch" >>

\* C21 witness: estimateTransactionFee when the connection is refused.
C21_Witness ==
    /\ op = "estimateTransactionFee" /\ Done
    /\ raised = << [ by |-> "client",
                     error |-> [ name |-> "Error",
                                 message |-> << "connect ECONNREFUSED 127.0.0.1:8080" >> ] ] >>
    /\ outcome = "rejected"

\* The getPayerSigner call succeeded: a 2xx response whose body is a JSON
\* object without an error.
RpcCallSucceeded ==
    /\ response # None
    /\ IsOk(response[1].status)
    /\ response[1].body.kind = "object"
    /\ response[1].body.error.t # "object"

\* C22: isAvailable never rejects; it makes one JSON-RPC call, getPayerSigner,
\* and returns true when that call succeeded and false when it failed at the
\* HTTP, protocol or transport level.
C22_IsAvailableNeverThrows ==
    ( op = "isAvailable" ) =>
        /\ outcome # "rejected" /\ thrown = None
        /\ Len(requests) <= 1
        /\ \A i \in DOMAIN requests : requests[i].body[1].method = "getPayerSigner"
        /\ Done =>
              /\ Len(requests) = 1
              /\ outcome = "returned"
              /\ value = Some(RpcCallSucceeded)

\* C22 witness: the server answered 500 and isAvailable returned false.
C22_Witness ==
    /\ op = "isAvailable" /\ Done
    /\ response # None /\ response[1].status = 500
    /\ value = Some(FALSE)

\* The calls of registerAgent that have been made.
Started == { p \in Callers : reg[p].pc # "idle" }
AttemptsOf(p) == { a \in created : a.caller = p }
\* The entries the call of p wrote to the store.
WritesOf(p) == { i \in DOMAIN dbWrites : dbWrites[i].registeredAt = p }
\* The call of p found the store holding an entry for its network.
FoundEntry(p) == reg[p].existing # None /\ reg[p].existing[1].network = reg[p].network

\* C23: a call of registerAgent that finds in the store an entry for its
\* network returns that entry, field for field, issues no create attempt and
\* does not write the store - the first call and the second alike.
C23_ExistingEntryReturned ==
    \A p \in Started :
        FoundEntry(p) =>
            /\ reg[p].pc = "done"
            /\ reg[p].outcome = "returned"
            /\ reg[p].returned = reg[p].existing
            /\ AttemptsOf(p) = {}
            /\ WritesOf(p) = {}
            /\ reg[p].attempt = 0

\* C23 witness: the first call registered the agent, the second found its
\* entry in the store and returned it.
C23_Witness ==
    /\ reg["first"].pc = "done" /\ reg["second"].pc = "done"
    /\ reg["first"].existing = None
    /\ reg["first"].returned # None
    /\ reg["second"].existing = reg["first"].returned
    /\ reg["second"].returned = reg["first"].returned
    /\ Len(dbWrites) = 1

\* The failures of the create attempts of the call of p, in order.
FailuresOf(p) == reg[p].failures
LastFailureOf(p) == FailuresOf(p)[Len(FailuresOf(p))]

\* What C24 says of a call at every moment.
BoundedAttempts(p) ==
    /\ Cardinality(AttemptsOf(p)) <= 3
    /\ Cardinality(AttemptsOf(p)) = reg[p].attempt
    /\ Len(FailuresOf(p)) <= Cardinality(AttemptsOf(p))
    /\ ( \E i \in DOMAIN FailuresOf(p) : FailuresOf(p)[i] \in AlreadyExistsErrors ) =>
          /\ reg[p].pc = "done" /\ reg[p].outcome = "returned"
          /\ LastFailureOf(p) \in AlreadyExistsErrors
          /\ \A i \in 1..(Len(FailuresOf(p)) - 1) :
                FailuresOf(p)[i] \notin AlreadyExistsErrors
    /\ ( reg[p].pc = "done" /\ reg[p].outcome = "returned" /\ ~FoundEntry(p) ) =>
          \/ Len(FailuresOf(p)) = reg[p].attempt - 1
          \/ Len(FailuresOf(p)) = reg[p].attempt /\ LastFailureOf(p) \in AlreadyExistsErrors
    /\ ( reg[p].pc = "done" /\ reg[p].outcome = "rejected" ) =>
          /\ Cardinality(AttemptsOf(p)) = 3
          /\ Len(FailuresOf(p)) = 3
          /\ \A i \in 1..3 : FailuresOf(p)[i] \notin AlreadyExistsErrors
          /\ reg[p].thrown # None
          /\ reg[p].thrown[1].message =
               << "Failed to register agent after ", "3", " attempts: ",
                  LastFailureOf(p).name, ": " >> \o LastFailureOf(p).message

\* C24: a call of registerAgent issues at most 3 create attempts, stops at the
\* first that succeeds or fails with an already-exists error, rejects after 3
\* other failures with "Failed to register agent after 3 attempts: <last
\* failure>", and every call that was made ends: time and again no call is
\* in flight (a call that is over stays over).
C24_AtMostThreeAttempts ==
    /\ [](\A p \in Started : BoundedAttempts(p))
    /\ []<>(\A p \in Callers : reg[p].pc \in { "idle", "done" })

\* C24 witness: three transient failures, the last one different from the
\* first two, and the call rejected.
C24_Witness ==
    /\ reg["first"].pc = "done" /\ reg["first"].outcome = "rejected"
    /\ Len(FailuresOf("first")) = 3
    /\ FailuresOf("first")[1].message = << "Blockhash not found" >>
    /\ LastFailureOf("first").message = << "429 Too Many Requests" >>
    /\ reg["second"].pc = "idle"

\* The entry the call of p returned, when it returned one it made itself.
MadeEntry(p) == reg[p].pc = "done" /\ reg[p].outcome = "returned" /\ ~FoundEntry(p)
\* The asset address the claims expect for a holder and an agent name.
ExpectedAsset(holder, agentName) ==
    << "ed25519", "sha256", "automaton-registry-v1", holder, agentName >>

\* C25: in registerAgent an already-exists failure of a create attempt, on
\* whichever attempt, ends the call with success: the entry returned has the
\* deterministic asset address and txSignature "already-registered", it was
\* written to the store, and no attempt follows.  A call whose last attempt
\* failed in any other way has not returned an entry.
C25_AlreadyExistsIsSuccess ==
    \A p \in Started :
        /\ ( \E i \in DOMAIN FailuresOf(p) : FailuresOf(p)[i] \in AlreadyExistsErrors ) =>
              /\ MadeEntry(p)
              /\ reg[p].returned[1].assetAddress =
                    ExpectedAsset(reg[p].holder, reg[p].agentName)
              /\ reg[p].returned[1].txSignature = "already-registered"
              /\ reg[p].returned[1].network = reg[p].network
              /\ \E i \in WritesOf(p) : dbWrites[i] = reg[p].returned[1]
              /\ Cardinality(WritesOf(p)) = 1
              /\ Cardinality(AttemptsOf(p)) = Len(FailuresOf(p))
              /\ reg[p].attempt = Len(FailuresOf(p))
        /\ ( MadeEntry(p) /\ Len(FailuresOf(p)) = reg[p].attempt ) =>
              LastFailureOf(p) \in AlreadyExistsErrors
        /\ ( MadeEntry(p) /\ reg[p].returned[1].txSignature = "already-registered" ) =>
              /\ Len(FailuresOf(p)) = reg[p].attempt
              /\ LastFailureOf(p) \in AlreadyExistsErrors
        /\ ( Len(FailuresOf(p)) > 0 /\ LastFailureOf(p) \notin AlreadyExistsErrors ) =>
              ( reg[p].outcome = "returned" => Len(FailuresOf(p)) < reg[p].attempt )

\* C25 witness: the first attempt failed transiently, the second with
\* "already in use", and the call returned the "already-registered" entry.
C25_Witness ==
    /\ MadeEntry("first")
    /\ Len(FailuresOf("first")) = 2
    /\ FailuresOf("first")[1] \in TransientErrors
    /\ FailuresOf("first")[2].name = "SendTransactionError"
    /\ reg["first"].returned[1].txSignature = "already-registered"
    /\ db = reg["first"].returned

\* C26: all create attempts for one holder and one agent name - the
\* attempts of one call, of both calls, on whichever network - target one
\* asset address, the one derived from the holder and the name, and the
\* entries returned carry it.
C26_AssetAddressDeterministic ==
    /\ \A a \in created, b \in created :
          ( a.holder = b.holder /\ a.agentName = b.agentName ) => a.asset = b.asset
    /\ \A a \in created : a.asset = ExpectedAsset(a.holder, a.agentName)
    /\ \A p \in Started :
          MadeEntry(p) =>
             reg[p].returned[1].assetAddress = ExpectedAsset(reg[p].holder, reg[p].agentName)

\* C26 witness: two calls for the same holder and name on different
\* networks, one of them at its second attempt or later.
C26_Witness ==
    /\ reg["first"].holder = reg["second"].holder
    /\ reg["first"].agentName = reg["second"].agentName
    /\ reg["first"].holder # ""
    /\ reg["first"].network # reg["second"].network
    /\ reg["first"].attempt >= 2
    /\ reg["second"].attempt >= 1
    /\ \E a \in AttemptsOf("first"), b \in AttemptsOf("second") : a.asset = b.asset

\* The submissions of a memo transaction made so far.
MemoSubmissions ==
    CountCalls("kora.signAndSendTransaction") + CountCalls("sendAndConfirmTransaction")

\* C27, as claimed: leaveFeedback reports a failed submission to its caller
\* only after 3 submissions.
C27_MemoWriteRetried ==
    ( op = "leaveFeedback" /\ Done /\ outcome = "rejected" /\ MemoSubmissions > 0 ) =>
        MemoSubmissions = 3

\* The call issued just before position i of `calls` was a versioned decoding
\* (nothing was signed after it: it threw).
DecodedVersionedBefore(i) ==
    i > 1 /\ calls[i - 1] = "VersionedTransaction.deserialize"

\* C28, as claimed: on the fee-payer path legacy decoding is attempted only
\* directly after a versioned decoding that threw, every versioned decoding
\* that threw is followed by legacy decoding, and what is sent to finalize was
\* signed in one format.
C28_LegacyOnlyAfterVersionedDecodeThrows ==
    ( op \in { "transferUsdc", "x402Fetch" } ) =>
        /\ \A i \in DOMAIN calls :
              calls[i] = "Transaction.from" => DecodedVersionedBefore(i)
        /\ \A i \in DOMAIN calls :
              ( calls[i] = "VersionedTransaction.deserialize" /\ i < Len(calls) ) =>
                 calls[i + 1] \in { "versionedTx.sign", "Transaction.from" }
        /\ Len(signedAs) <= 1
        /\ \A i \in DOMAIN koraSubmitted :
              Len(signedAs) = 1 /\ koraSubmitted[i].format = signedAs[1]

\* C29, as claimed: every transaction handed to Kora for finalization names
\* Kora as its fee payer.
C29_KoraIsFeePayer ==
    \A i \in DOMAIN koraSubmitted : koraSubmitted[i].feePayer = "kora"

\* The raw amount was handed to a path: the Kora build or the direct transfer.
AmountHandedOver ==
    /\ op = "transferUsdc"
    /\ CountCalls("kora.transferTransaction") + CountCalls("transfer") > 0

\* C30: the raw amount transferUsdc hands to either path is the floor of the
\* human amount in raw units: raw <= amount * 10^6 < raw + 1, an integer that
\* is never above the amount asked for.
C30_AmountFloored ==
    AmountHandedOver =>
        /\ amountRaw # None
        /\ amountRaw[1] \in Int
        /\ amountRaw[1] * SubUnit <= amountUSDC
        /\ amountUSDC < (amountRaw[1] + 1) * SubUnit

\* C30 witness: an amount with a fraction of a raw unit was handed to the
\* Kora build, truncated.
C30_Witness ==
    /\ op = "transferUsdc"
    /\ CountCalls("kora.transferTransaction") = 1
    /\ amountUSDC % SubUnit # 0
    /\ amountRaw # None
    /\ amountRaw[1] >= 1
    /\ amountRaw[1] * SubUnit < amountUSDC

\* C31: in registerAgent the wait that follows the failure of attempt k is
\* 2000 ms * k (2000, then 4000); there are at most two waits, none after the
\* third attempt, after a success or after an already-exists failure; and
\* attempt k+1 is issued only when attempt k has failed and its wait is over.
C31_LinearBackoff ==
    \A p \in Started :
        LET c == reg[p] IN
        /\ \A k \in DOMAIN c.waits :
              /\ c.waits[k] = 2000 * k
              /\ k <= Len(FailuresOf(p))
              /\ FailuresOf(p)[k] \notin AlreadyExistsErrors
        /\ Len(c.waits) <= 2
        /\ c.pc = "r_sleep" => Len(c.waits) = c.attempt /\ Len(FailuresOf(p)) = c.attempt
        /\ c.pc = "r_create" =>
              Len(c.waits) = c.attempt - 1 /\ Len(FailuresOf(p)) = c.attempt - 1
        /\ ( c.pc = "done" /\ ~FoundEntry(p) ) => Len(c.waits) = c.attempt - 1
        /\ Cardinality(AttemptsOf(p)) <= Len(FailuresOf(p)) + 1

\* C31 witness: the third attempt is in flight after waits of 2000 and 4000.
C31_Witness ==
    /\ reg["first"].pc = "r_create"
    /\ reg["first"].attempt = 3
    /\ reg["first"].waits = << 2000, 4000 >>
    /\ Len(FailuresOf("first")) = 2

\* Both calls were made for the same holder, name and network, and both found
\* the store empty.
Concurrent ==
    /\ Started = Callers
    /\ reg["first"].holder = reg["second"].holder
    /\ reg["first"].agentName = reg["second"].agentName
    /\ reg["first"].network = reg["second"].network
    /\ reg["first"].existing = None /\ reg["second"].existing = None
\* The calls that returned an entry whose create was confirmed.
ConfirmedCreators ==
    { p \in Callers : MadeEntry(p) /\ reg[p].returned[1].txSignature \in CreateSignatures }

\* C32: two registerAgent calls for the same holder, name and network that
\* both found the store empty return entries with one assetAddress, the store
\* holds that assetAddress once one of them has returned, at most one asset
\* is on chain and at most one create was confirmed, and a call whose create
\* failed with an already-exists error has returned an entry, not rejected.
C32_ConcurrentCallsConverge ==
    Concurrent =>
        /\ \A p \in Callers, q \in Callers :
              ( MadeEntry(p) /\ MadeEntry(q) ) =>
                 reg[p].returned[1].assetAddress = reg[q].returned[1].assetAddress
        /\ \A p \in Callers :
              MadeEntry(p) =>
                 db # None /\ db[1].assetAddress = reg[p].returned[1].assetAddress
        /\ Cardinality(chain) <= 1
        /\ Cardinality(ConfirmedCreators) <= 1
        /\ \A p \in Callers :
              ( \E i \in DOMAIN FailuresOf(p) : FailuresOf(p)[i] \in AlreadyExistsErrors ) =>
                 MadeEntry(p)
        /\ \A p \in Callers : MadeEntry(p) => chain = { reg[p].returned[1].assetAddress }

\* C32 witness: the second call was made while the first was in flight; the
\* first created the asset, the second met already-exists on its first
\* attempt and returned the same address.
C32_Witness ==
    /\ Concurrent
    /\ ConfirmedCreators = { "first" }
    /\ MadeEntry("second")
    /\ reg["second"].attempt = 1
    /\ reg["second"].returned[1].txSignature = "already-registered"
    /\ reg["second"].returned[1].assetAddress = reg["first"].returned[1].assetAddress
    /\ Len(dbWrites) = 2

\* The balance lookup of the transferUsdc call in flight failed.
BalanceLookupFailed ==
    /\ op = "transferUsdc"
    /\ \E i \in DOMAIN raised : raised[i].by = "getUsdcBalance"

\* C33, as claimed: when the balance lookup fails, for whatever reason,
\* getUsdcBalance reports 0 and does not fail, and transferUsdc refuses every
\* positive amount with the safety-limit error before any transaction is built.
C33_FailedLookupReportsZero ==
    BalanceLookupFailed =>
        /\ balance = Some(0)
        /\ outcome # "rejected"
        /\ amountUSDC > 0 =>
              /\ pc \in { "usdc_check", "done" }
              /\ \A i \in DOMAIN calls : calls[i] = "getTokenAccountBalance"
              /\ Done => result = Failure(SafetyLimitMessage(0))

\* C34, as claimed: the amount handed to the Kora build or to the direct
\* transfer is a positive integer number of raw units, not above half of the
\* balance that was queried.
C34_PositiveAmountWithinLimit ==
    AmountHandedOver =>
        /\ amountRaw # None
        /\ amountRaw[1] >= 1
        /\ amountUSDC > 0
        /\ balance # None
        /\ 2 * amountRaw[1] * SubUnit <= balance[1]

\* C35, as claimed: every result of transferUsdc and transferSol carries
\* exactly one of txSignature and error: txSignature and no error when
\* success is true, error and no txSignature when it is false.
C35_ExactlyOneOfSignatureAndError ==
    ( op \in { "transferUsdc", "transferSol" } /\ Done /\ outcome = "returned" ) =>
        /\ result.success <=> ( result.txSignature # None /\ result.error = None )
        /\ ~result.success <=> ( result.error # None /\ result.txSignature = None )

\* A transaction of transferSol was submitted.
SolSubmitted == "sendAndConfirmTransaction" \in Issued

\* C40: transferSol submits a transaction only after the balance was read and
\* when the lamports asked for are at most half of it; lamports above half of
\* the balance give success = false with the safety-limit error and nothing
\* submitted; a failed balance query gives success = false with nothing
\* submitted.
C40_SolSafetyLimit ==
    op = "transferSol" =>
        /\ SolSubmitted =>
              /\ balance # None /\ lamports # None
              /\ 2 * lamports[1] <= balance[1]
              /\ calls[1] = "getBalance" /\ CountCalls("getBalance") = 1
        /\ ( balance # None /\ 2 * lamports[1] > balance[1] ) =>
              /\ Done /\ outcome = "returned"
              /\ result = Failure(<< "Safety limit: cannot send more than 50% of SOL balance" >>)
              /\ ~SolSubmitted
        /\ ( Done /\ balance = None ) =>
              /\ ~SolSubmitted
              /\ outcome = "returned" => ( ~result.success /\ result.error # None )

\* C40 witness: 2 lamports asked with a balance of 3: refused, nothing sent.
C40_Witness ==
    /\ op = "transferSol" /\ Done
    /\ lamports = Some(2) /\ balance = Some(3)
    /\ ~result.success
    /\ calls = << "getBalance" >>

\* C37: updateAgentURI writes the store only after the update was confirmed.
\* While the update is awaited and when it failed the store is as it was and
\* the call, once over, has rejected; with an empty store nothing is written;
\* on success the call returns the update's signature and the one entry
\* written, which the store holds, carries the new URI and that signature.
C37_StoreWrittenAfterUpdate ==
    upd.pc # "idle" =>
        /\ upd.pc = "u_send" => db = upd.before /\ dbWrites = << >>
        /\ ( upd.pc = "done" /\ upd.thrown # None ) =>
              /\ upd.outcome = "rejected" /\ upd.returned = None
              /\ db = upd.before /\ dbWrites = << >>
        /\ ( upd.pc = "done" /\ upd.thrown = None ) =>
              /\ upd.outcome = "returned"
              /\ upd.returned # None /\ upd.returned[1] \in { "sigUpdateA", "sigUpdateB" }
              /\ upd.found = upd.before
              /\ upd.before = None => db = None /\ dbWrites = << >>
              /\ upd.before # None =>
                    /\ Len(dbWrites) = 1
                    /\ db = Some(dbWrites[1])
                    /\ db[1].agentURI = upd.newAgentURI
                    /\ db[1].txSignature = upd.returned[1]

\* C37 witness: the stored entry was rewritten with the new URI and the
\* signature returned.
C37_Witness ==
    /\ upd.pc = "done" /\ upd.outcome = "returned"
    /\ upd.before # None
    /\ db # upd.before
    /\ db[1].agentURI = "https://agent.example/card-v3.json"
    /\ db[1].txSignature = "sigUpdateB"
    /\ upd.returned = Some("sigUpdateB")

\* C38, as claimed: updateAgentURI changes the stored entry only when its
\* assetAddress is the asset that was updated, and never changes the entry's
\* assetAddress, network and registeredAt.
C38_OnlyMatchingEntryChanged ==
    ( upd.pc = "done" /\ upd.before # None ) =>
        /\ db # None
        /\ db[1].assetAddress = upd.before[1].assetAddress
        /\ db[1].network = upd.before[1].network
        /\ db[1].registeredAt = upd.before[1].registeredAt
        /\ upd.before[1].assetAddress # upd.assetAddress => db = upd.before /\ dbWrites = << >>

\* The last create attempt of the call of p was confirmed.
LastAttemptConfirmed(p) ==
    /\ Len(FailuresOf(p)) = reg[p].attempt - 1
    /\ reg[p].returned[1].txSignature \in CreateSignatures
\* The last create attempt of the call of p failed with already-exists.
LastAttemptExisted(p) ==
    /\ Len(FailuresOf(p)) = reg[p].attempt
    /\ LastFailureOf(p) \in AlreadyExistsErrors

\* C36: a call of registerAgent writes the store at most once, and only when
\* a create attempt was confirmed or failed with already-exists - the entry
\* written is the one returned.  A call in flight, a call that rejected after
\* 3 failures and a call that returned the entry it found have written
\* nothing; the store holds the last entry written, or what it held.
C36_StoreWrittenOncePerCall ==
    /\ \A p \in Started :
          /\ Cardinality(WritesOf(p)) <= 1
          /\ WritesOf(p) # {} =>
                /\ MadeEntry(p)
                /\ \A i \in WritesOf(p) : dbWrites[i] = reg[p].returned[1]
                /\ LastAttemptConfirmed(p) \/ LastAttemptExisted(p)
          /\ MadeEntry(p) => WritesOf(p) # {}
          /\ reg[p].pc # "done" => WritesOf(p) = {}
          /\ reg[p].outcome = "rejected" => WritesOf(p) = {} /\ reg[p].attempt = 3
          /\ FoundEntry(p) => WritesOf(p) = {}
          /\ dbWrites = << >> => db = reg[p].existing
    /\ dbWrites # << >> => db = Some(dbWrites[Len(dbWrites)])
    /\ Len(dbWrites) <= Cardinality(Started)

\* C36 witness: the first call wrote once, after one failure; the second
\* rejected after 3 failures and wrote nothing.
C36_Witness ==
    /\ MadeEntry("first") /\ reg["first"].attempt = 2
    /\ reg["second"].pc = "done" /\ reg["second"].outcome = "rejected"
    /\ dbWrites = << reg["first"].returned[1] >>
    /\ db = reg["first"].returned

\* The call of p found an entry for another network than its own.
FoundOtherNetwork(p) ==
    reg[p].existing # None /\ reg[p].existing[1].network # reg[p].network

\* C39: registerAgent compares the stored entry by network only.  An entry
\* for the network asked for is returned as it is, whatever holder and name
\* the call has and whatever asset the entry names; an entry for another
\* network does not stop the create attempts, and the entry the call then
\* makes replaces it in the store.
C39_MatchByNetworkOnly ==
    \A p \in Started :
        /\ FoundEntry(p) =>
              /\ reg[p].outcome = "returned" /\ reg[p].returned = reg[p].existing
              /\ AttemptsOf(p) = {}
        /\ FoundOtherNetwork(p) =>
              /\ reg[p].attempt >= 1
              /\ AttemptsOf(p) # {}
              /\ reg[p].returned # reg[p].existing
              /\ MadeEntry(p) =>
                    /\ reg[p].returned[1].network = reg[p].network
                    /\ \E i \in WritesOf(p) :
                          /\ dbWrites[i] = reg[p].returned[1]
                          /\ dbWrites[i] # reg[p].existing[1]

\* C39 witness: the store held an entry for devnet naming another asset.  The
\* first call, for devnet, returned it although its own holder and name give
\* another address; the second, for mainnet-beta, created its asset and
\* replaced the entry.
C39_Witness ==
    /\ FoundEntry("first")
    /\ reg["first"].returned[1].assetAddress #
          ExpectedAsset(reg["first"].holder, reg["first"].agentName)
    /\ FoundOtherNetwork("second") /\ MadeEntry("second")
    /\ reg["second"].existing = reg["first"].returned
    /\ db = reg["second"].returned
    /\ db[1].network = "mainnet-beta"
====
